---- MODULE Spec2Model ----
(***************************************************************************)
(* GitHub webhook deployer: the request pipeline of app.js (one script     *)
(* for every repository, with a derived environment), of the older         *)
(* single-script variant (unnamed/part_000) and of the per-repository      *)
(* variant (unnamed/part_001, of which unnamed/part_002 is the commented   *)
(* copy).                                                                  *)
(*                                                                         *)
(* JavaScript strings are sequences of character codes, so that            *)
(* startsWith, substring, replace, split and the hex codec are computed as *)
(* the code computes them.  The value undefined is the sequence <<-1>>,    *)
(* which is no string.                                                     *)
(***************************************************************************)
EXTENDS Integers, Sequences, FiniteSets, TLC

VARIABLES
    program,        \* which source file runs: "app", "part_000", "part_001"
    processEnv,     \* process.env, a function from names to values
    disk,           \* the script paths that exist on disk (fs.existsSync)
    nDeliveries,    \* requests handled so far
    req,            \* the request handled last
    run,            \* what the handler did for req
    children,       \* the child processes exec started, each with the HTTP
                    \* responses sent for the delivery that started it
    verifyIn,       \* input of a stand-alone call of verifyGitHubSignature
    verifyOut,      \* its outcome
    phase,          \* the process: "starting", "validated", "listening", "exited"
    counts,         \* the rate limiter's request counter of each source address
    edge,           \* what the middleware chain did with the request received last
    swallowed       \* the process-level faults the process.on handlers logged

vars == <<program, processEnv, disk, nDeliveries, req, run, children,
          verifyIn, verifyOut, phase, counts, edge, swallowed>>

\* the state of the process and of the middleware in front of the handler
frontVars == <<phase, counts, edge, swallowed>>

(***************************************************************************)
(* Bounds of the model.                                                    *)
(***************************************************************************)
MaxDeliveries == 2

\* requests the server receives after it has started
MaxArrivals == 3

\* requests of a burst
MaxBurst == 12

\* child processes followed at a time by the specification of the whole server
MaxTrackedChildren == 1
\* the longest script path the startup validation is given
MaxPathLen == 3
\* process-level faults in one run
MaxFaults == 1

(***************************************************************************)
(* Strings.                                                                *)
(***************************************************************************)
Undefined == <<-1>>

\* "sha256="
SigPrefix ==
    <<115, 104, 97, 50, 53, 54, 61>>
\* "refs/heads/"
RefsHeads ==
    <<114, 101, 102, 115, 47, 104, 101, 97, 100, 115, 47>>
\* "ping"
EventPing ==
    <<112, 105, 110, 103>>
\* "push"
EventPush ==
    <<112, 117, 115, 104>>
\* "issues"
EventIssues ==
    <<105, 115, 115, 117, 101, 115>>
\* "main,master"
DefaultBranches ==
    <<109, 97, 105, 110, 44, 109, 97, 115, 116, 101, 114>>
\* "bash "
BashCmd ==
    <<98, 97, 115, 104, 32>>
\* "WEBHOOK_SECRET"
K_WEBHOOK_SECRET ==
    <<87, 69, 66, 72, 79, 79, 75, 95, 83, 69, 67, 82, 69, 84>>
\* "ALLOWED_BRANCHES"
K_ALLOWED_BRANCHES ==
    <<65, 76, 76, 79, 87, 69, 68, 95, 66, 82, 65, 78, 67, 72, 69, 83>>
\* "DEPLOYMENT_SCRIPT"
K_DEPLOYMENT_SCRIPT ==
    <<68, 69, 80, 76, 79, 89, 77, 69, 78, 84, 95, 83, 67, 82, 73, 80, 84>>
\* "DEPLOY_SCRIPT_PATH"
K_DEPLOY_SCRIPT_PATH ==
    <<68, 69, 80, 76, 79, 89, 95, 83, 67, 82, 73, 80, 84, 95, 80, 65, 84, 72>>
\* "REPO_SCRIPT_"
K_REPO_SCRIPT ==
    <<82, 69, 80, 79, 95, 83, 67, 82, 73, 80, 84, 95>>
\* "GITHUB_REPO_FULL_NAME"
K_GITHUB_REPO_FULL_NAME ==
    <<71, 73, 84, 72, 85, 66, 95, 82, 69, 80, 79, 95, 70, 85, 76, 76, 95, 78, 65, 77, 69>>
\* "GITHUB_REPO_NAME"
K_GITHUB_REPO_NAME ==
    <<71, 73, 84, 72, 85, 66, 95, 82, 69, 80, 79, 95, 78, 65, 77, 69>>
\* "GITHUB_REPO_OWNER"
K_GITHUB_REPO_OWNER ==
    <<71, 73, 84, 72, 85, 66, 95, 82, 69, 80, 79, 95, 79, 87, 78, 69, 82>>
\* "GITHUB_BRANCH"
K_GITHUB_BRANCH ==
    <<71, 73, 84, 72, 85, 66, 95, 66, 82, 65, 78, 67, 72>>
\* "GITHUB_COMMIT"
K_GITHUB_COMMIT ==
    <<71, 73, 84, 72, 85, 66, 95, 67, 79, 77, 77, 73, 84>>
\* "GITHUB_PUSHER"
K_GITHUB_PUSHER ==
    <<71, 73, 84, 72, 85, 66, 95, 80, 85, 83, 72, 69, 82>>

(* Values the requests and the configuration are drawn from. *)
\* "main"
BranchMain ==
    <<109, 97, 105, 110>>
\* "dev"
BranchDev ==
    <<100, 101, 118>>
\* "refs/heads/main"
RefMain ==
    <<114, 101, 102, 115, 47, 104, 101, 97, 100, 115, 47, 109, 97, 105, 110>>
\* "refs/heads/dev"
RefDev ==
    <<114, 101, 102, 115, 47, 104, 101, 97, 100, 115, 47, 100, 101, 118>>
\* "acme/site"
RepoSite ==
    <<97, 99, 109, 101, 47, 115, 105, 116, 101>>
\* "zed/tool"
RepoTool ==
    <<122, 101, 100, 47, 116, 111, 111, 108>>
\* "site"
NameSite ==
    <<115, 105, 116, 101>>
\* "tool"
NameTool ==
    <<116, 111, 111, 108>>
\* "acme"
OwnerAcme ==
    <<97, 99, 109, 101>>
\* "zed"
OwnerZed ==
    <<122, 101, 100>>
\* "octo"
PusherOcto ==
    <<111, 99, 116, 111>>
\* "9fceb02d"
CommitA ==
    <<57, 102, 99, 101, 98, 48, 50, 100>>
\* "REPO_SCRIPT_acme_site"
K_REPO_SCRIPT_acme_site ==
    <<82, 69, 80, 79, 95, 83, 67, 82, 73, 80, 84, 95, 97, 99, 109, 101, 95, 115, 105, 116, 101>>
\* "/opt/deploy.sh"
PathDeploy ==
    <<47, 111, 112, 116, 47, 100, 101, 112, 108, 111, 121, 46, 115, 104>>
\* "/opt/site.sh"
PathSite ==
    <<47, 111, 112, 116, 47, 115, 105, 116, 101, 46, 115, 104>>
\* "stale"
Stale ==
    <<115, 116, 97, 108, 101>>
\* "s3cret"
SecretA ==
    <<115, 51, 99, 114, 101, 116>>
\* "constructor"
Constructor == <<99, 111, 110, 115, 116, 114, 117, 99, 116, 111, 114>>

\* "toString"
ToStringKey == <<116, 111, 83, 116, 114, 105, 110, 103>>

\* "REPO_SCRIPT_zed_tool"
K_REPO_SCRIPT_zed_tool ==
    <<82, 69, 80, 79, 95, 83, 67, 82, 73, 80, 84, 95, 122, 101, 100, 95, 116, 111, 111, 108>>

\* "./deploy.sh"
PathRelative == <<46, 47, 100, 101, 112, 108, 111, 121, 46, 115, 104>>

\* "/opt/d.sh;id"
PathInjected == <<47, 111, 112, 116, 47, 100, 46, 115, 104, 59, 105, 100>>

\* "/opt/gone.sh"
PathGone == <<47, 111, 112, 116, 47, 103, 111, 110, 101, 46, 115, 104>>

\* "/opt/./site.sh"
PathDotted == <<47, 111, 112, 116, 47, 46, 47, 115, 105, 116, 101, 46, 115, 104>>

\* "hunter2"
SecretB ==
    <<104, 117, 110, 116, 101, 114, 50>>

(***************************************************************************)
(* JavaScript values and string methods.                                   *)
(***************************************************************************)
\* !x for a value that is a string or undefined
Falsy(x) == x = Undefined \/ x = <<>>

\* a || b
OrElse(a, b) == IF Falsy(a) THEN b ELSE a

\* s.startsWith(p)
StartsWith(s, p) == Len(s) >= Len(p) /\ SubSeq(s, 1, Len(p)) = p

\* s.substring(n)
Substring(s, n) == SubSeq(s, n + 1, Len(s))

\* the 1-based position of the first occurrence of p in s, 0 when there is none
IndexOf(s, p) ==
    LET hits == {i \in 1..(Len(s) - Len(p) + 1) : SubSeq(s, i, i + Len(p) - 1) = p}
    IN  IF hits = {} THEN 0 ELSE CHOOSE i \in hits : \A j \in hits : i <= j

\* s.replace(p, r) with a string pattern: the first occurrence only
Replace(s, p, r) ==
    LET i == IndexOf(s, p)
    IN  IF i = 0 THEN s
        ELSE SubSeq(s, 1, i - 1) \o r \o SubSeq(s, i + Len(p), Len(s))

\* s.split(',')
RECURSIVE Split(_, _)
Split(s, sep) ==
    LET i == IndexOf(s, <<sep>>)
    IN  IF i = 0 THEN <<s>>
        ELSE <<SubSeq(s, 1, i - 1)>> \o Split(SubSeq(s, i + 1, Len(s)), sep)

\* array.includes(x)
Includes(arr, x) == \E i \in 1..Len(arr) : arr[i] = x

\* the outcome of an expression that may throw
Returned(v) == [threw |-> FALSE, value |-> v]
Thrown == [threw |-> TRUE, value |-> FALSE]

(***************************************************************************)
(* The hex codec of Buffer and the keyed digest of crypto.                 *)
(***************************************************************************)
\* the bytes of a digest (32 for SHA-256)
DigestLen == 6

\* the value of a hex digit, -1 for any other character
Unhex(c) ==
    IF c >= 48 /\ c <= 57 THEN c - 48
    ELSE IF c >= 97 /\ c <= 102 THEN c - 87
    ELSE IF c >= 65 /\ c <= 70 THEN c - 55
    ELSE -1

\* Buffer.from(s, 'hex'): Len(s) \div 2 pairs are decoded, and the decoding
\* stops at the first pair that holds a character that is no hex digit
HexDecode(s) ==
    LET n    == Len(s) \div 2
        bad  == {i \in 1..n : Unhex(s[2 * i - 1]) = -1 \/ Unhex(s[2 * i]) = -1}
        m    == IF bad = {} THEN n ELSE (CHOOSE i \in bad : \A j \in bad : i <= j) - 1
    IN  [i \in 1..m |-> Unhex(s[2 * i - 1]) * 16 + Unhex(s[2 * i])]

HexDigit(d) == IF d < 10 THEN 48 + d ELSE 87 + d

\* digest('hex'): two lower-case digits per byte
HexEncode(bytes) ==
    [i \in 1..(2 * Len(bytes)) |->
        LET b == bytes[(i + 1) \div 2]
        IN  IF i % 2 = 1 THEN HexDigit(b \div 16) ELSE HexDigit(b % 16)]

RECURSIVE KeySum(_)
KeySum(key) ==
    IF key = <<>> THEN 0 ELSE key[Len(key)] * Len(key) + KeySum(SubSeq(key, 1, Len(key) - 1))

\* bytes i+1.. of s that are UTF-8 continuation bytes, at most n of them
RECURSIVE Continuations(_, _, _)
Continuations(s, i, n) ==
    IF n = 0 \/ i + 1 > Len(s) \/ s[i + 1] < 128 \/ s[i + 1] > 191 THEN <<>>
    ELSE <<s[i + 1] - 128>> \o Continuations(s, i + 1, n - 1)

\* the string a UTF-8 decoder makes of bytes i.. of s: a well-formed sequence
\* becomes its code point, a byte or truncated sequence that is not well-formed
\* becomes U+FFFD
RECURSIVE Utf8DecodeFrom(_, _)
Utf8DecodeFrom(s, i) ==
    IF i > Len(s) THEN <<>>
    ELSE LET b == s[i]
             want == IF b >= 194 /\ b <= 223 THEN 1
                     ELSE IF b >= 224 /\ b <= 239 THEN 2
                     ELSE IF b >= 240 /\ b <= 244 THEN 3 ELSE 0
             cont == Continuations(s, i, want)
             lead == IF want = 1 THEN b - 192 ELSE IF want = 2 THEN b - 224 ELSE b - 240
             cp == IF want = 1 THEN (lead * 64) + cont[1]
                   ELSE IF want = 2 THEN (lead * 4096) + (cont[1] * 64) + cont[2]
                   ELSE (lead * 262144) + (cont[1] * 4096) + (cont[2] * 64) + cont[3]
         IN  IF b < 128 THEN <<b>> \o Utf8DecodeFrom(s, i + 1)
             ELSE IF want = 0 THEN <<65533>> \o Utf8DecodeFrom(s, i + 1)
             ELSE IF Len(cont) < want THEN <<65533>> \o Utf8DecodeFrom(s, i + 1 + Len(cont))
             ELSE IF (want = 2 /\ (cp < 2048 \/ (cp >= 55296 /\ cp <= 57343)))
                     \/ (want = 3 /\ (cp < 65536 \/ cp > 1114111))
             THEN <<65533>> \o Utf8DecodeFrom(s, i + 1)
             ELSE <<cp>> \o Utf8DecodeFrom(s, i + 1 + want)

\* getRawBody(req, { encoding: 'utf8' }): the bytes of the body as a string
Utf8Decode(bytes) == Utf8DecodeFrom(bytes, 1)

\* the bytes of one code point
Utf8Bytes(cp) ==
    IF cp < 128 THEN <<cp>>
    ELSE IF cp < 2048 THEN <<192 + (cp \div 64), 128 + (cp % 64)>>
    ELSE IF cp < 65536
    THEN <<224 + (cp \div 4096), 128 + ((cp \div 64) % 64), 128 + (cp % 64)>>
    ELSE <<240 + (cp \div 262144), 128 + ((cp \div 4096) % 64),
           128 + ((cp \div 64) % 64), 128 + (cp % 64)>>

\* hmac.update(string): the string is hashed as its UTF-8 bytes
RECURSIVE Utf8Encode(_)
Utf8Encode(str) ==
    IF str = <<>> THEN <<>> ELSE Utf8Bytes(Head(str)) \o Utf8Encode(Tail(str))

\* crypto.createHmac('sha256', key).update(msg).digest(): a keyed digest of
\* DigestLen bytes.  It stands for HMAC-SHA256 by what the verifier relies on:
\* it is a function of (key, msg), and two messages shorter than DigestLen
\* never share a digest under one key
Hmac(key, msg) ==
    LET k == KeySum(key)
        n == Len(msg)
    IN  [i \in 1..DigestLen |->
            IF i = 1 THEN (k + n) % 256
            ELSE (k * i + (IF i - 1 <= n THEN msg[i - 1] + 1 ELSE 0)) % 256]

\* crypto.timingSafeEqual(a, b): throws when the lengths differ
TimingSafeEqual(a, b) == IF Len(a) # Len(b) THEN Thrown ELSE Returned(a = b)

(***************************************************************************)
(* Configuration read from process.env at load time.                       *)
(***************************************************************************)
Env(name) == IF name \in DOMAIN processEnv THEN processEnv[name] ELSE Undefined

WEBHOOK_SECRET == Env(K_WEBHOOK_SECRET)

ALLOWED_BRANCHES == Split(OrElse(Env(K_ALLOWED_BRANCHES), DefaultBranches), 44)

(***************************************************************************)
(* verifyGitHubSignature(req)                                              *)
(***************************************************************************)
\* try { ... } catch (e) { return false }
CatchFalse(outcome) == IF outcome.threw THEN Returned(FALSE) ELSE outcome

\* the body of the try block
CompareDigest(signature, rawBody) ==
    LET sig    == Substring(signature, 7)
        digest == HexEncode(Hmac(WEBHOOK_SECRET, Utf8Encode(rawBody)))
    IN  TimingSafeEqual(HexDecode(sig), HexDecode(digest))

\* a variant that takes what follows the seven-character prefix without checking
\* what the prefix is
verifyWithoutPrefixCheck(r) ==
    LET signature == r.signature
    IN  IF Falsy(signature) THEN Returned(FALSE)
        ELSE IF Falsy(r.rawBody) THEN Returned(FALSE)
        ELSE CatchFalse(CompareDigest(signature, r.rawBody))

verifyGitHubSignature(r) ==
    LET signature == r.signature
    IN  IF Falsy(signature) \/ ~StartsWith(signature, SigPrefix) THEN Returned(FALSE)
        ELSE IF Falsy(r.rawBody) THEN Returned(FALSE)
        ELSE CatchFalse(CompareDigest(signature, r.rawBody))

\* what GitHub sends for a body: 'sha256=' and the hex digest
Sign(secret, body) == SigPrefix \o HexEncode(Hmac(secret, body))

(***************************************************************************)
(* JSON payloads.  A payload is null or an object; a property that is      *)
(* absent reads as undefined, and reading a property of undefined or of    *)
(* null throws a TypeError.                                                *)
(***************************************************************************)
NullPayload ==
    [isNull |-> TRUE, ref |-> Undefined, repository |-> FALSE, full_name |-> Undefined,
     name |-> Undefined, owner |-> FALSE, owner_name |-> Undefined,
     owner_login |-> Undefined, after |-> Undefined, pusher |-> FALSE,
     pusher_name |-> Undefined]

\* {}
EmptyObject == [NullPayload EXCEPT !.isNull = FALSE]

\* a push payload as GitHub sends it
PushPayload(ref, full, short, ownerName, ownerLogin) ==
    [isNull |-> FALSE, ref |-> ref, repository |-> TRUE, full_name |-> full,
     name |-> short, owner |-> TRUE, owner_name |-> ownerName,
     owner_login |-> ownerLogin, after |-> CommitA, pusher |-> TRUE,
     pusher_name |-> PusherOcto]

PushMain == PushPayload(RefMain, RepoSite, NameSite, OwnerAcme, OwnerAcme)
PushMainLogin == PushPayload(RefMain, RepoSite, NameSite, Undefined, OwnerAcme)
PushDev == PushPayload(RefDev, RepoSite, NameSite, OwnerAcme, OwnerAcme)
PushTool == PushPayload(RefMain, RepoTool, NameTool, OwnerZed, OwnerZed)
\* a push to main whose repository.full_name is "constructor"
PushConstructor == PushPayload(RefMain, Constructor, NameSite, OwnerAcme, OwnerAcme)
\* {"ref": "refs/heads/dev"}
PushDevNoRepository == [EmptyObject EXCEPT !.ref = RefDev]
\* a push to main without "after"
PushMainNoAfter == [PushMain EXCEPT !.after = Undefined]
\* a push to main whose repository has no "owner"
PushMainNoOwner == [PushMain EXCEPT !.owner = FALSE, !.owner_name = Undefined,
                                    !.owner_login = Undefined]

\* The JSON texts.  "{}" and "null" are themselves; the text of a push payload
\* is abbreviated to a letter between braces.  Every other string is no JSON.
JsonDocuments ==
    { <<<<123, 125>>, EmptyObject>>,
      <<<<110, 117, 108, 108>>, NullPayload>>,
      <<<<123, 65, 125>>, PushMain>>,
      <<<<123, 66, 125>>, PushMainLogin>>,
      <<<<123, 67, 125>>, PushDev>>,
      <<<<123, 68, 125>>, PushTool>>,
      <<<<123, 69, 125>>, PushDevNoRepository>>,
      <<<<123, 70, 125>>, PushMainNoAfter>>,
      <<<<123, 71, 125>>, PushMainNoOwner>>,
      <<<<123, 72, 125>>, PushConstructor>> }

JsonTexts == {d[1] : d \in JsonDocuments}

\* a push to main whose pusher name holds U+FFFD, the replacement character
PushMainReplaced == [PushMain EXCEPT !.pusher_name = <<65533>>]

\* its text, abbreviated to U+FFFD between braces
ReplacedDocuments == { <<<<123, 65533, 125>>, PushMainReplaced>> }

\* texts with insignificant white space: "{ A}" is the push to main
SpacedDocuments == { <<<<123, 32, 65, 125>>, PushMain>> }

\* "main", a ref without the prefix
RefBare == BranchMain
\* "marefs/heads/in", a ref with the prefix inside
RefInfix == <<109, 97>> \o RefsHeads \o <<105, 110>>
\* "refs/tags/main"
RefTag == <<114, 101, 102, 115, 47, 116, 97, 103, 115, 47>> \o BranchMain
\* "refs/heads/refs/heads/main"
RefTwice == RefsHeads \o RefMain

PushBare == [PushMain EXCEPT !.ref = RefBare]
PushInfix == [PushMain EXCEPT !.ref = RefInfix]
PushTag == [PushMain EXCEPT !.ref = RefTag]
PushTwice == [PushMain EXCEPT !.ref = RefTwice]

\* their texts, abbreviated to the letters I to L between braces
RefDocuments ==
    { <<<<123, 73, 125>>, PushBare>>,
      <<<<123, 74, 125>>, PushInfix>>,
      <<<<123, 75, 125>>, PushTag>>,
      <<<<123, 76, 125>>, PushTwice>> }

RefTexts == {d[1] : d \in RefDocuments}

\* "my_org"
OwnerOrg == <<109, 121, 95, 111, 114, 103>>
\* "my_org/site", a repository whose owner has an underscore
RepoOrg == OwnerOrg \o <<47>> \o NameSite
\* "my/org_site"
RepoOrgSlashed == <<109, 121, 47, 111, 114, 103, 95>> \o NameSite
\* "REPO_SCRIPT_my_org_site", the entry written for my_org/site
K_REPO_SCRIPT_my_org_site == K_REPO_SCRIPT \o OwnerOrg \o <<95>> \o NameSite
\* "/opt/org.sh"
PathOrg == <<47, 111, 112, 116, 47, 111, 114, 103, 46, 115, 104>>

PushOrg == PushPayload(RefMain, RepoOrg, NameSite, OwnerOrg, OwnerOrg)
PushOrgSlashed == PushPayload(RefMain, RepoOrgSlashed, NameSite, OwnerOrg, OwnerOrg)

\* their texts, abbreviated to "{N}" and "{O}"
KeyDocuments ==
    { <<<<123, 78, 125>>, PushOrg>>,
      <<<<123, 79, 125>>, PushOrgSlashed>> }

\* a push to dev of zed/tool
PushDevTool == PushPayload(RefDev, RepoTool, NameTool, OwnerZed, OwnerZed)

\* its text, abbreviated to "{M}"
RouteDocuments == { <<<<123, 77, 125>>, PushDevTool>> }

AllDocuments ==
    JsonDocuments \cup ReplacedDocuments \cup SpacedDocuments \cup RefDocuments
        \cup RouteDocuments \cup KeyDocuments

\* JSON.parse(text): the value, or a SyntaxError thrown
JSON_parse(text) ==
    IF \E d \in AllDocuments : d[1] = text
    THEN Returned((CHOOSE d \in AllDocuments : d[1] = text)[2])
    ELSE [threw |-> TRUE, value |-> NullPayload]

\* JSON.stringify(value): the text without insignificant white space
JSON_stringify(value) ==
    (CHOOSE d \in JsonDocuments \cup ReplacedDocuments : d[2] = value)[1]

\* "p=1", a form-encoded body
FormBody == <<112, 61, 49>>

Bodies == JsonTexts \cup {FormBody, <<>>}

(***************************************************************************)
(* Script configuration.                                                   *)
(***************************************************************************)
\* app.js: one script for every repository
DEPLOYMENT_SCRIPT == Env(K_DEPLOYMENT_SCRIPT)

\* unnamed/part_000: one script, started without a derived environment
DEPLOY_SCRIPT_PATH == Env(K_DEPLOY_SCRIPT_PATH)

\* s.replaceAll(<<c>>, <<r>>)
ReplaceEvery(s, c, r) == [i \in 1..Len(s) |-> IF s[i] = c THEN r ELSE s[i]]

\* a key with every underscore of the rest turned into a slash
RepoNameEveryUnderscore(key) == ReplaceEvery(Replace(key, K_REPO_SCRIPT, <<>>), 95, 47)

\* unnamed/part_001: key.replace('REPO_SCRIPT_', '').replace('_', '/')
RepoNameOfKey(key) == Replace(Replace(key, K_REPO_SCRIPT, <<>>), <<95>>, <<47>>)

\* unnamed/part_001: the entries REPO_SCRIPT_<rest> of process.env, by repository
REPO_SCRIPTS ==
    LET keys == {k \in DOMAIN processEnv : StartsWith(k, K_REPO_SCRIPT)}
    IN  [n \in {RepoNameOfKey(k) : k \in keys} |->
            processEnv[CHOOSE k \in keys : RepoNameOfKey(k) = n]]

DEPLOYMENT_SCRIPTS == REPO_SCRIPTS

\* property names every object literal inherits from Object.prototype
InheritedKeys == {Constructor, ToStringKey}

\* the value of an inherited property: a function, which is truthy and no path
InheritedMember == <<-2>>

\* DEPLOYMENT_SCRIPTS[repoFullName]: an own entry, else an inherited property,
\* else undefined
ScriptOf(repoFullName) ==
    IF repoFullName \in DOMAIN DEPLOYMENT_SCRIPTS
    THEN DEPLOYMENT_SCRIPTS[repoFullName]
    ELSE IF repoFullName \in InheritedKeys THEN InheritedMember
    ELSE Undefined

\* an existence check that relies on the validation at startup: whatever is
\* configured is taken to exist
ExistsAtStartup(path) == path # Undefined /\ path # InheritedMember

\* fs.existsSync(path): false for an argument that is no path
ExistsSync(path) == path # InheritedMember /\ path \in disk

(***************************************************************************)
(* The steps of the request handler.  A handler run is recorded as: the    *)
(* responses it sent, the exec calls it made, whether the signature check  *)
(* had passed, the payload properties it read, and whether it threw.       *)
(***************************************************************************)
Start == [verified |-> FALSE, reads |-> {}, execs |-> <<>>, threw |-> FALSE, sent |-> <<>>]

\* res.status(status).send(message)
Send(st, status, text, arg) ==
    [st EXCEPT !.sent = Append(@, [status |-> status, text |-> text, arg |-> arg])]

\* an exception leaves the handler: express answers it with status 500
Raise(st) ==
    [st EXCEPT !.threw = TRUE,
               !.sent = Append(@, [status |-> 500, text |-> "Internal Server Error",
                                   arg |-> <<>>])]

Read(st, properties) == [st EXCEPT !.reads = @ \cup properties]

\* the environment a child is given: entries whose value is undefined are left out
Spawned(env) == [k \in {n \in DOMAIN env : env[n] # Undefined} |-> env[k]]

\* an exec that is skipped while a child with the same command is running
ExecWithEnvExclusive(st, cmd, env) ==
    IF \E c \in 1..Len(children) : children[c].state = "running" /\ children[c].cmd = cmd
    THEN st
    ELSE [st EXCEPT !.execs = Append(@, [cmd |-> cmd, env |-> Spawned(env)])]

\* exec(cmd, { env }, callback)
ExecWithEnv(st, cmd, env) ==
    [st EXCEPT !.execs = Append(@, [cmd |-> cmd, env |-> Spawned(env)])]

\* exec(cmd, callback): the child inherits process.env
ExecInherit(st, cmd) ==
    [st EXCEPT !.execs = Append(@, [cmd |-> cmd, env |-> Spawned(processEnv)])]

OnInvalidJson(st) == Send(st, 400, "Invalid JSON payload", <<>>)

\* a variant that answers a failed check with another status
OnInvalidSignatureForbidden(st) == Send(st, 403, "Invalid signature", <<>>)

OnInvalidSignature(st) == Send(st, 401, "Invalid signature", <<>>)

\* a ping branch without its return: the final send of the handler follows
OnPingNoReturn(st) ==
    Send(Send(st, 200, "Webhook configured successfully", <<>>),
         200, "Received ${event} event, but no action taken", <<112, 105, 110, 103>>)

OnPing(st) == Send(st, 200, "Webhook configured successfully", <<>>)

OnOtherEvent(st, event) == Send(st, 200, "Received ${event} event, but no action taken", event)

OnIgnoredBranch(st, branch) == Send(st, 200, "Ignored push to ${branch} branch", branch)

OnNoScriptConfigured(st, repoFullName) ==
    Send(st, 200, "No deployment configured for ${repoFullName}", repoFullName)

OnScriptMissing(st) == Send(st, 500, "Deployment error: Script not found", <<>>)

OnStarted(st) == Send(st, 200, "Deployment started", <<>>)

\* payload.ref.replace('refs/heads/', '')
BranchOf(ref) == Replace(ref, RefsHeads, <<>>)

DerivedKeys ==
    {K_GITHUB_REPO_FULL_NAME, K_GITHUB_REPO_NAME, K_GITHUB_REPO_OWNER,
     K_GITHUB_BRANCH, K_GITHUB_COMMIT, K_GITHUB_PUSHER}

\* const env = { ...process.env, GITHUB_REPO_FULL_NAME: repoFullName, ... }
DerivedEnv(payload, repoFullName, branch) ==
    [k \in DOMAIN processEnv \cup DerivedKeys |->
        IF k = K_GITHUB_REPO_FULL_NAME THEN repoFullName
        ELSE IF k = K_GITHUB_REPO_NAME THEN payload.name
        ELSE IF k = K_GITHUB_REPO_OWNER THEN OrElse(payload.owner_name, payload.owner_login)
        ELSE IF k = K_GITHUB_BRANCH THEN branch
        ELSE IF k = K_GITHUB_COMMIT THEN payload.after
        ELSE IF k = K_GITHUB_PUSHER THEN payload.pusher_name
        ELSE processEnv[k]]

\* the tail the variants with a derived environment share: the log lines, the
\* existence check, the environment, exec and the response
Dispatch(st, payload, repoFullName, branch, deployScriptPath) ==
    LET s1 == Read(st, {"after", "pusher.name"})
    IN  IF payload.after = Undefined \/ ~payload.pusher THEN Raise(s1)
        ELSE IF ~ExistsSync(deployScriptPath) THEN OnScriptMissing(s1)
        ELSE LET s2 == Read(s1, {"repository.name", "repository.owner"})
             IN  IF ~payload.owner THEN Raise(s2)
                 ELSE OnStarted(ExecWithEnv(s2, BashCmd \o deployScriptPath,
                                            DerivedEnv(payload, repoFullName, branch)))

\* app.js, if (event === 'push') { ... }
PushApp(st, payload) ==
    LET s1 == Read(st, {"repository.full_name"})
    IN  IF payload.isNull \/ ~payload.repository THEN Raise(s1)
        ELSE LET s2 == Read(s1, {"ref"})
             IN  IF payload.ref = Undefined THEN Raise(s2)
                 ELSE LET repoFullName == payload.full_name
                          branch == BranchOf(payload.ref)
                          deployScriptPath == DEPLOYMENT_SCRIPT
                      IN  IF ~Includes(ALLOWED_BRANCHES, branch)
                          THEN OnIgnoredBranch(s2, branch)
                          ELSE Dispatch(s2, payload, repoFullName, branch, deployScriptPath)

\* unnamed/part_001, if (event === 'push') { ... }
PushPerRepo(st, payload) ==
    LET s1 == Read(st, {"repository.full_name"})
    IN  IF payload.isNull \/ ~payload.repository THEN Raise(s1)
        ELSE LET s2 == Read(s1, {"ref"})
             IN  IF payload.ref = Undefined THEN Raise(s2)
                 ELSE LET repoFullName == payload.full_name
                          branch == BranchOf(payload.ref)
                          deployScriptPath == ScriptOf(repoFullName)
                      IN  IF Falsy(deployScriptPath)
                          THEN OnNoScriptConfigured(s2, repoFullName)
                          ELSE IF ~Includes(ALLOWED_BRANCHES, branch)
                          THEN OnIgnoredBranch(s2, branch)
                          ELSE Dispatch(s2, payload, repoFullName, branch, deployScriptPath)

\* unnamed/part_000, if (event === 'push') { ... }
PushSingle(st, payload) ==
    LET s1 == Read(st, {"ref"})
    IN  IF payload.isNull \/ payload.ref = Undefined THEN Raise(s1)
        ELSE LET branch == BranchOf(payload.ref)
             IN  IF ~Includes(ALLOWED_BRANCHES, branch) THEN OnIgnoredBranch(s1, branch)
                 ELSE LET s2 == Read(s1, {"repository.full_name", "after", "pusher.name"})
                      IN  IF ~payload.repository \/ payload.after = Undefined
                             \/ ~payload.pusher
                          THEN Raise(s2)
                          ELSE IF ~ExistsSync(DEPLOY_SCRIPT_PATH) THEN OnScriptMissing(s2)
                          ELSE OnStarted(ExecInherit(s2, BashCmd \o DEPLOY_SCRIPT_PATH))

OnPush(st, payload) ==
    IF program = "app" THEN PushApp(st, payload)
    ELSE IF program = "part_001" THEN PushPerRepo(st, payload)
    ELSE PushSingle(st, payload)

\* a variant without the ping branch ahead of the push branch
RouteWithoutPing(st, event, payload) ==
    IF event = EventPush \/ event = EventPing THEN OnPush(st, payload)
    ELSE OnOtherEvent(st, event)

\* a variant that refuses the event types it has no branch for
RouteRejectsUnknown(st, event, payload) ==
    IF event = EventPing THEN OnPing(st)
    ELSE IF event = EventPush THEN OnPush(st, payload)
    ELSE Send(st, 400, "Unsupported event", event)

\* the routing on the event type: ping, push, anything else
Route(st, event, payload) ==
    IF event = EventPing THEN OnPing(st)
    ELSE IF event = EventPush THEN OnPush(st, payload)
    ELSE OnOtherEvent(st, event)

\* a variant that verifies the signature before it parses the body
HandlerVerifyFirst(r) ==
    LET v == verifyGitHubSignature(r)
    IN  IF v.threw THEN Raise(Start)
        ELSE IF ~v.value THEN OnInvalidSignature(Start)
        ELSE LET parsed == JSON_parse(r.rawBody)
             IN  IF parsed.threw THEN OnInvalidJson(Start)
                 ELSE Route([Start EXCEPT !.verified = TRUE], r.event, parsed.value)

\* a variant that tells a missing signature header from a wrong one
HandlerTellsMissing(r) ==
    LET parsed == JSON_parse(r.rawBody)
    IN  IF parsed.threw THEN OnInvalidJson(Start)
        ELSE IF r.signature = Undefined THEN Send(Start, 401, "Missing signature", <<>>)
        ELSE LET v == verifyGitHubSignature(r)
             IN  IF v.threw THEN Raise(Start)
                 ELSE IF ~v.value THEN OnInvalidSignature(Start)
                 ELSE Route([Start EXCEPT !.verified = TRUE], r.event, parsed.value)

\* app.post('/githubwebhook', (req, res) => { ... }): parse, verify, route
Handler(r) ==
    LET parsed == JSON_parse(r.rawBody)
    IN  IF parsed.threw THEN OnInvalidJson(Start)
        ELSE LET v == verifyGitHubSignature(r)
             IN  IF v.threw THEN Raise(Start)
                 ELSE IF ~v.value THEN OnInvalidSignature(Start)
                 ELSE Route([Start EXCEPT !.verified = TRUE], r.event, parsed.value)

\* a variant that reports a failed deployment to the HTTP caller
ExecCallbackReporting(outcome) ==
    [logged |-> <<"Deployment error">>,
     sent |-> IF outcome = "error"
              THEN <<[status |-> 500, text |-> "Deployment failed", arg |-> <<>>]>>
              ELSE <<>>]

\* the exec callback: it writes log lines and sends nothing
ExecCallback(outcome) ==
    [logged |-> IF outcome = "error" THEN <<"Deployment error">>
                ELSE IF outcome = "stderr"
                THEN <<"Deployment output", "Deployment stderr", "Deployment completed">>
                ELSE <<"Deployment output", "Deployment completed">>,
     sent |-> <<>>]

(***************************************************************************)
(* The running server.                                                     *)
(***************************************************************************)
Programs == {"app", "part_000", "part_001"}

EnvOf(p) ==
    IF p = "app"
    THEN (K_WEBHOOK_SECRET :> SecretA) @@ (K_DEPLOYMENT_SCRIPT :> PathDeploy)
         @@ (K_GITHUB_BRANCH :> Stale)
    ELSE IF p = "part_000"
    THEN (K_WEBHOOK_SECRET :> SecretB) @@ (K_DEPLOY_SCRIPT_PATH :> PathDeploy)
         @@ (K_ALLOWED_BRANCHES :> BranchMain)
    ELSE IF p = "part_001"
    THEN (K_WEBHOOK_SECRET :> SecretA) @@ (K_REPO_SCRIPT_acme_site :> PathSite)
    ELSE (K_WEBHOOK_SECRET :> SecretB) @@ (K_DEPLOY_SCRIPT_PATH :> PathDeploy)

\* the scripts the configuration names
ConfiguredScripts ==
    IF program = "app" THEN {DEPLOYMENT_SCRIPT}
    ELSE IF program = "part_001"
    THEN {DEPLOYMENT_SCRIPTS[n] : n \in DOMAIN DEPLOYMENT_SCRIPTS}
    ELSE {DEPLOY_SCRIPT_PATH}

NoRequest == [event |-> Undefined, signature |-> Undefined, rawBody |-> Undefined]

NoOutcome == [done |-> FALSE, threw |-> FALSE, value |-> FALSE]

\* the source addresses requests come from
Sources == {"10.0.0.1", "10.0.0.2"}

\* the limiter's store at process start: no request counted
NoCounts == [a \in Sources |-> 0]

\* no request received yet
NoEdge ==
    [source |-> "", seq |-> 0, event |-> Undefined, signature |-> Undefined,
     wire |-> Undefined, length |-> 0, stages |-> {},
     status |-> 0, hmacInput |-> Undefined]

Events == {EventPing, EventPush, EventIssues, Undefined}

\* "zz"
NotHex == <<122, 122>>

\* the X-Hub-Signature-256 values a request for a body may carry: GitHub's, none,
\* the signature of another body, and GitHub's with two characters appended
SignaturesFor(body) ==
    LET good == Sign(WEBHOOK_SECRET, body)
    IN  {good, Undefined, Sign(WEBHOOK_SECRET, body \o <<120>>), good \o NotHex}

\* the server is listening: startup validated the configuration, so every
\* configured script exists
Init ==
    /\ program \in Programs
    /\ processEnv = EnvOf(program)
    /\ disk = ConfiguredScripts
    /\ nDeliveries = 0
    /\ req = NoRequest
    /\ run = Start
    /\ children = <<>>
    /\ verifyIn = NoRequest
    /\ verifyOut = NoOutcome
    /\ phase = "listening"
    /\ counts = NoCounts
    /\ edge = NoEdge
    /\ swallowed = <<>>

\* a request that passed the rate limiter and whose body was captured reaches
\* the handler, which runs to completion
Deliver(r) ==
    /\ nDeliveries < MaxDeliveries
    /\ nDeliveries' = nDeliveries + 1
    /\ req' = r
    /\ run' = Handler(r)
    /\ children' = children \o
            [i \in 1..Len(run'.execs) |->
                [delivery |-> nDeliveries + 1, cmd |-> run'.execs[i].cmd,
                 env |-> run'.execs[i].env, state |-> "running", logged |-> <<>>,
                 responses |-> run'.sent]]
    /\ UNCHANGED <<program, processEnv, disk, verifyIn, verifyOut>>
    /\ UNCHANGED frontVars

\* a child process ends and the exec callback runs: what it sends is added to
\* the responses of the delivery that started the child
ChildExit(c, outcome) ==
    /\ c \in 1..Len(children)
    /\ children[c].state = "running"
    /\ LET cb == ExecCallback(outcome)
       IN  children' = [children EXCEPT ![c].state = "exited",
                                        ![c].logged = cb.logged,
                                        ![c].responses = @ \o cb.sent]
    /\ UNCHANGED <<program, processEnv, disk, nDeliveries, req, run, verifyIn, verifyOut>>
    /\ UNCHANGED frontVars

\* a configured script is removed from the disk after startup
RemoveScript(p) ==
    /\ p \in disk
    /\ disk' = disk \ {p}
    /\ UNCHANGED <<program, processEnv, nDeliveries, req, run, children,
                   verifyIn, verifyOut>>
    /\ UNCHANGED frontVars

\* and put back
RestoreScript(p) ==
    /\ p \in ConfiguredScripts \ disk
    /\ disk' = disk \cup {p}
    /\ UNCHANGED <<program, processEnv, nDeliveries, req, run, children,
                   verifyIn, verifyOut>>
    /\ UNCHANGED frontVars

Next ==
    \/ \E body \in Bodies :
          \E signature \in SignaturesFor(body) :
             \E event \in Events :
                Deliver([event |-> event, signature |-> signature, rawBody |-> body])
    \/ \E c \in 1..MaxDeliveries, outcome \in {"error", "stderr", "ok"} : ChildExit(c, outcome)
    \/ \E p \in ConfiguredScripts : RemoveScript(p)
    \/ \E p \in ConfiguredScripts : RestoreScript(p)

Spec == Init /\ [][Next]_vars


(***************************************************************************)
(* verifyGitHubSignature on its own: the inputs are drawn at the start and *)
(* the call is the only step.                                              *)
(***************************************************************************)
\* c with bit k flipped
FlipBit(c, k) == IF (c \div (2 ^ k)) % 2 = 1 THEN c - 2 ^ k ELSE c + 2 ^ k

\* the strings that differ from s in one bit of one character
Flips(s) == {[s EXCEPT ![i] = FlipBit(s[i], k)] : i \in 1..Len(s), k \in 0..7}

\* "{x}"
BraceBody == <<123, 120, 125>>

VerifyBodies == {<<>>, <<123, 125>>, <<123, 65, 125>>, FormBody, BraceBody}

\* "0"
HexZero == <<48>>

\* for a body: GitHub's signature, its one-bit mutations, and the headers that
\* are absent, empty, without prefix, cut short or extended
VerifySignatures(secret, body) ==
    LET good == Sign(secret, body)
    IN  {good, Undefined, <<>>, Substring(good, 7), SigPrefix,
         SubSeq(good, 1, Len(good) - 1), SubSeq(good, 1, Len(good) - 2),
         good \o HexZero, good \o HexZero \o HexZero, good \o NotHex}
        \cup Flips(good)

VerifyInputs(secret) ==
    UNION {
        {[event |-> Undefined, signature |-> s, rawBody |-> b] :
            s \in VerifySignatures(secret, b)}
        \cup {[event |-> Undefined, signature |-> Sign(secret, b), rawBody |-> m] :
                 m \in Flips(b) \cup {Undefined}}
        : b \in VerifyBodies}

InitVerify ==
    /\ program = "app"
    /\ \E secret \in {SecretA, SecretB} :
          processEnv = [EnvOf("app") EXCEPT ![K_WEBHOOK_SECRET] = secret]
    /\ disk = ConfiguredScripts
    /\ nDeliveries = 0
    /\ req = NoRequest
    /\ run = Start
    /\ children = <<>>
    /\ verifyIn \in VerifyInputs(WEBHOOK_SECRET)
    /\ verifyOut = NoOutcome
    /\ phase = "listening"
    /\ counts = NoCounts
    /\ edge = NoEdge
    /\ swallowed = <<>>

VerifyCall ==
    /\ ~verifyOut.done
    /\ LET out == verifyGitHubSignature(verifyIn)
       IN  verifyOut' = [done |-> TRUE, threw |-> out.threw, value |-> out.value]
    /\ UNCHANGED <<program, processEnv, disk, nDeliveries, req, run, children, verifyIn>>
    /\ UNCHANGED frontVars

NextVerify == VerifyCall

SpecVerify == InitVerify /\ [][NextVerify]_vars



(***************************************************************************)
(* Properties of the signature verifier, checked under SpecVerify.         *)
(***************************************************************************)
\* s and t differ in exactly one character, a hex digit of the digest (past the
\* prefix), and only in its letter case
HexCaseChange(s, t) ==
    /\ Len(s) = Len(t)
    /\ \E i \in (Len(SigPrefix) + 1)..Len(s) :
          /\ s[i] # t[i]
          /\ Unhex(s[i]) # -1
          /\ Unhex(s[i]) = Unhex(t[i])
          /\ \A j \in 1..Len(s) : j # i => s[j] = t[j]

\* the request carries a captured body and, as its signature, a one-bit mutation
\* of GitHub's signature of that body
SignatureMutated ==
    /\ verifyIn.rawBody # Undefined
    /\ verifyIn.signature \in Flips(Sign(WEBHOOK_SECRET, verifyIn.rawBody))

\* the request carries GitHub's signature of a body of which its own body is a
\* one-bit mutation
BodyMutated ==
    /\ verifyIn.rawBody # Undefined
    /\ \E original \in Flips(verifyIn.rawBody) :
          verifyIn.signature = Sign(WEBHOOK_SECRET, original)

\* the request carries a captured body and GitHub's signature of it
SignedByGitHub ==
    /\ verifyIn.rawBody # Undefined
    /\ verifyIn.signature = Sign(WEBHOOK_SECRET, verifyIn.rawBody)

\* C2 as stated: verify(body, sign(body, secret), secret) is true for every
\* (secret, body), and false after any one-bit mutation of the body or of the
\* signature header value.
C2_RoundTripAndAnyMutation ==
    verifyOut.done =>
        /\ SignedByGitHub => verifyOut.value
        /\ SignatureMutated => ~verifyOut.value
        /\ BodyMutated => ~verifyOut.value

\* C2 as amended: the round trip is true for every non-empty body; a one-bit
\* mutation of the body, or of the header other than a change of letter case of a
\* hex digit of the digest, is rejected; such a change of case is accepted.
C2_RoundTripAndMutation ==
    verifyOut.done =>
        /\ (SignedByGitHub /\ verifyIn.rawBody # <<>>) => verifyOut.value
        /\ (SignatureMutated
              /\ ~HexCaseChange(verifyIn.signature,
                                Sign(WEBHOOK_SECRET, verifyIn.rawBody)))
           => ~verifyOut.value
        /\ (SignatureMutated /\ verifyIn.rawBody # <<>>
              /\ HexCaseChange(verifyIn.signature,
                               Sign(WEBHOOK_SECRET, verifyIn.rawBody)))
           => verifyOut.value
        /\ BodyMutated => ~verifyOut.value

\* a hex digit of the digest was changed into another character, a mutation that
\* is no change of case, and the verifier rejected the request
C2_Witness ==
    /\ verifyOut.done
    /\ verifyIn.rawBody # <<>>
    /\ SignatureMutated
    /\ StartsWith(verifyIn.signature, SigPrefix)
    /\ ~HexCaseChange(verifyIn.signature, Sign(WEBHOOK_SECRET, verifyIn.rawBody))
    /\ ~verifyOut.value

\* the characters after the prefix are not 2 * DigestLen hex digits
MalformedHex(signature) ==
    LET payload == Substring(signature, Len(SigPrefix))
    IN  \/ Len(payload) # 2 * DigestLen
        \/ \E i \in 1..Len(payload) : Unhex(payload[i]) = -1

\* C3 as stated: the verifier returns false and does not throw whenever the
\* header is absent, lacks the prefix 'sha256=', the raw body was not captured,
\* or the hex payload is malformed hex or of the wrong length.
C3_MalformedIsRejected ==
    (/\ verifyOut.done
     /\ \/ verifyIn.signature = Undefined
        \/ ~StartsWith(verifyIn.signature, SigPrefix)
        \/ verifyIn.rawBody = Undefined
        \/ MalformedHex(verifyIn.signature))
    => (~verifyOut.value /\ ~verifyOut.threw)



(***************************************************************************)
(* Properties of the request pipeline, checked under Spec.                 *)
(***************************************************************************)
\* a request has been handled: req and run are its request and its run
Handled == nDeliveries > 0

Parsed == JSON_parse(req.rawBody)

Payload == Parsed.value

\* the request carries GitHub's signature of its body
GitHubSigned == req.signature = Sign(WEBHOOK_SECRET, req.rawBody)

\* the one response of the run has this status
Answered(status) == Len(run.sent) = 1 /\ run.sent[1].status = status

Started == [status |-> 200, text |-> "Deployment started", arg |-> <<>>]

\* the header is absent, lacks the prefix, or carries another digest than the
\* HMAC of the body
SignatureMissingOrWrong ==
    \/ Falsy(req.signature)
    \/ ~StartsWith(req.signature, SigPrefix)
    \/ HexDecode(Substring(req.signature, Len(SigPrefix)))
          # Hmac(WEBHOOK_SECRET, req.rawBody)

\* the ref with the prefix 'refs/heads/' stripped
StrippedRef(ref) ==
    IF StartsWith(ref, RefsHeads) THEN Substring(ref, Len(RefsHeads)) ELSE ref

\* C1 as stated: a script is launched only for a request whose signature
\* verified: a header that is missing, malformed or does not match the HMAC of
\* the raw body never leads to an exec, and no payload property is read before
\* the signature check has passed.
C1_LaunchOnlyIfSignatureValid ==
    Handled =>
        /\ (SignatureMissingOrWrong \/ MalformedHex(req.signature)) => run.execs = <<>>
        /\ run.reads # {} => run.verified

C5_MalformedJsonIs400 ==
    (Handled /\ Parsed.threw) => (Answered(400) /\ run.execs = <<>>)

\* a push with a form-encoded body and GitHub's signature of it was answered 400
C5_Witness ==
    /\ Handled
    /\ req.event = EventPush
    /\ req.rawBody = FormBody
    /\ GitHubSigned
    /\ Answered(400)

\* C6 as stated: a ping with any body and a valid signature is answered 200 and
\* starts no script.
C6_PingAnyBody ==
    (Handled /\ req.event = EventPing /\ GitHubSigned)
    => (Answered(200) /\ run.execs = <<>>)

\* C6 as amended: a ping with any well-formed JSON body and a valid signature is
\* answered 200 and starts no script.
C6_PingAnyJsonBody ==
    (Handled /\ req.event = EventPing /\ GitHubSigned /\ ~Parsed.threw)
    => (Answered(200) /\ run.execs = <<>>)

\* a signed ping whose body is a push to an allowed branch was answered 200
C6_Witness ==
    /\ Handled
    /\ req.event = EventPing
    /\ GitHubSigned
    /\ ~Parsed.threw
    /\ Payload = PushMain
    /\ Answered(200)
    /\ run.execs = <<>>

\* C7 as stated: a validly signed push whose branch is not in ALLOWED_BRANCHES
\* is answered 200 and starts no script, in single-script and per-repository
\* mode.
C7_DisallowedBranchIgnored ==
    (/\ Handled
     /\ req.event = EventPush
     /\ GitHubSigned
     /\ ~Parsed.threw
     /\ Payload.ref # Undefined
     /\ ~Includes(ALLOWED_BRANCHES, StrippedRef(Payload.ref)))
    => (Answered(200) /\ run.execs = <<>>)

\* the request is a validly signed push to an allowed branch for a repository
\* that has a configured script
AcceptablePush(r) ==
    LET parsed == JSON_parse(r.rawBody)
        p == parsed.value
    IN  /\ r.event = EventPush
        /\ r.signature = Sign(WEBHOOK_SECRET, r.rawBody)
        /\ ~parsed.threw
        /\ p.ref # Undefined
        /\ Includes(ALLOWED_BRANCHES, StrippedRef(p.ref))
        /\ p.repository
        /\ program = "part_001" => p.full_name \in DOMAIN DEPLOYMENT_SCRIPTS

\* the script that serves the repository of the request
ScriptFor(r) ==
    IF program = "app" THEN DEPLOYMENT_SCRIPT
    ELSE IF program = "part_000" THEN DEPLOY_SCRIPT_PATH
    ELSE DEPLOYMENT_SCRIPTS[JSON_parse(r.rawBody).value.full_name]

\* C8 as stated: a validly signed push to an allowed branch, for a repository
\* with a configured script that exists on disk, starts the script exactly once
\* and is answered 200 'Deployment started'.
C8_AcceptedPushLaunchesOnce ==
    [][(/\ nDeliveries' = nDeliveries + 1
        /\ AcceptablePush(req')
        /\ ScriptFor(req') \in disk)
       => (Len(run'.execs) = 1 /\ run'.sent = <<Started>>)]_vars

\* C9: the response to an accepted push does not wait for the child: a child's
\* delivery has its response from the step that starts the child, and the end
\* of a child, whatever its outcome, neither changes nor adds to the responses
\* of the delivery that started it.
C9_ResponseIndependentOfChild ==
    [][/\ \A c \in 1..Len(children') : children'[c].responses # <<>>
       /\ \A c \in 1..Len(children) : children'[c].responses = children[c].responses]_vars

\* a deployment failed after its delivery was answered 'Deployment started'
C9_Witness ==
    \E c \in 1..Len(children) :
        /\ children[c].state = "exited"
        /\ children[c].logged = <<"Deployment error">>
        /\ children[c].responses = <<Started>>

\* the six derived fields of a payload, by variable name
DerivedFields(p) ==
    [k \in DerivedKeys |->
        IF k = K_GITHUB_REPO_FULL_NAME THEN p.full_name
        ELSE IF k = K_GITHUB_REPO_NAME THEN p.name
        ELSE IF k = K_GITHUB_REPO_OWNER
        THEN (IF Falsy(p.owner_name) THEN p.owner_login ELSE p.owner_name)
        ELSE IF k = K_GITHUB_BRANCH THEN StrippedRef(p.ref)
        ELSE IF k = K_GITHUB_COMMIT THEN p.after
        ELSE p.pusher_name]

\* C10 as stated: every script started receives the process environment and the
\* six derived fields of the payload that triggered it, a derived field taking
\* precedence over a variable of the process environment of the same name.
C10_ChildEnvironment ==
    Handled =>
        \A i \in 1..Len(run.execs) :
            LET env == run.execs[i].env
                derived == DerivedFields(Payload)
            IN  /\ \A k \in DerivedKeys :
                      derived[k] # Undefined => (k \in DOMAIN env /\ env[k] = derived[k])
                /\ \A k \in DOMAIN processEnv \ DerivedKeys :
                      k \in DOMAIN env /\ env[k] = processEnv[k]

(***************************************************************************)
(* The handler under requests whose signature fails for every cause there  *)
(* is: no header, an empty header, another prefix, characters that are no  *)
(* hex digits, a digest of another length, the digest of another body.     *)
(***************************************************************************)
\* "sha1="
Sha1Prefix == <<115, 104, 97, 49, 61>>

FailingSignatures(body) ==
    LET good == Sign(WEBHOOK_SECRET, body)
        hex == Substring(good, Len(SigPrefix))
    IN  { Undefined,
          <<>>,
          Sha1Prefix \o hex,
          SigPrefix \o NotHex \o hex,
          SubSeq(good, 1, Len(good) - 2),
          Sign(WEBHOOK_SECRET, body \o <<120>>) }

NextAuth ==
    \E body \in JsonTexts \cup {FormBody} :
       \E signature \in FailingSignatures(body) \cup {Sign(WEBHOOK_SECRET, body)} :
          \E event \in {EventPush, EventPing} :
             Deliver([event |-> event, signature |-> signature, rawBody |-> body])

SpecAuth == Init /\ [][NextAuth]_vars

\* why the signature of the request handled last is no good, "" if it is good
FailureCause ==
    LET signature == req.signature
        hex == Substring(signature, Len(SigPrefix))
    IN  IF signature = Undefined THEN "missing"
        ELSE IF signature = <<>> THEN "empty"
        ELSE IF ~StartsWith(signature, SigPrefix) THEN "prefix"
        ELSE IF \E i \in 1..Len(hex) : Unhex(hex[i]) < 0 THEN "hex"
        ELSE IF Len(hex) # 2 * DigestLen THEN "length"
        ELSE IF signature # Sign(WEBHOOK_SECRET, req.rawBody) THEN "digest"
        ELSE ""

\* C17: whenever the signature check of a request fails, the response is 401
\* 'Invalid signature' and nothing else, whatever made the check fail: no
\* header, the wrong prefix, malformed hex, a wrong length or a wrong digest.
C17_UniformFailureResponse ==
    (Handled /\ ~Parsed.threw /\ ~run.verified)
    => /\ run.sent = <<[status |-> 401, text |-> "Invalid signature", arg |-> <<>>]>>
       /\ run.reads = {}
       /\ run.execs = <<>>

\* a push whose signature holds characters that are no hex digits was refused
C17_Witness ==
    /\ Handled
    /\ ~Parsed.threw
    /\ req.event = EventPush
    /\ FailureCause = "hex"
    /\ ~run.verified
    /\ run.sent = <<[status |-> 401, text |-> "Invalid signature", arg |-> <<>>]>>

(***************************************************************************)
(* Process start: the top-level statements of the script, from the         *)
(* configuration checks to app.listen.                                     *)
(***************************************************************************)
\* the characters of /[;&|`$<>]/
MetaChars == {59, 38, 124, 96, 36, 60, 62}

\* /[;&|`$<>]/.test(scriptPath)
HasMetaChar(s) == \E i \in 1..Len(s) : s[i] \in MetaChars

\* segments.join('/')
RECURSIVE Join(_)
Join(segs) ==
    IF segs = <<>> THEN <<>>
    ELSE IF Len(segs) = 1 THEN segs[1]
    ELSE segs[1] \o <<47>> \o Join(Tail(segs))

\* the segments of a path with '', '.' and '..' resolved
RECURSIVE NormalizeSegments(_, _, _)
NormalizeSegments(segs, acc, absolute) ==
    IF segs = <<>> THEN acc
    ELSE LET seg == Head(segs)
             rest == Tail(segs)
         IN  IF seg = <<>> \/ seg = <<46>> THEN NormalizeSegments(rest, acc, absolute)
             ELSE IF seg = <<46, 46>>
             THEN IF acc # <<>> /\ acc[Len(acc)] # <<46, 46>>
                  THEN NormalizeSegments(rest, SubSeq(acc, 1, Len(acc) - 1), absolute)
                  ELSE IF absolute THEN NormalizeSegments(rest, acc, absolute)
                  ELSE NormalizeSegments(rest, Append(acc, seg), absolute)
             ELSE NormalizeSegments(rest, Append(acc, seg), absolute)

\* path.isAbsolute(p) on POSIX
IsAbsolute(p) == Len(p) > 0 /\ p[1] = 47

\* path.normalize(p) on POSIX
PathNormalize(p) ==
    IF p = <<>> THEN <<46>>
    ELSE LET absolute == IsAbsolute(p)
             trailing == p[Len(p)] = 47
             body == Join(NormalizeSegments(Split(p, 47), <<>>, absolute))
         IN  IF body = <<>> THEN (IF absolute THEN <<47>>
                                  ELSE IF trailing THEN <<46, 47>> ELSE <<46>>)
             ELSE (IF absolute THEN <<47>> ELSE <<>>) \o body
                  \o (IF trailing THEN <<47>> ELSE <<>>)

\* a check of the normalized path alone
isValidWithoutMetaCheck(scriptPath) == IsAbsolute(PathNormalize(scriptPath))

\* function isValidScriptPath(scriptPath)
isValidScriptPath(scriptPath) ==
    IF HasMetaChar(scriptPath) THEN FALSE
    ELSE LET normalizedPath == PathNormalize(scriptPath)
         IN  IsAbsolute(normalizedPath)

\* app.js: the three checks that end in process.exit(1)
StartupApp ==
    /\ ~Falsy(WEBHOOK_SECRET)
    /\ ~Falsy(DEPLOYMENT_SCRIPT)
    /\ ~(~ExistsSync(DEPLOYMENT_SCRIPT) \/ ~isValidScriptPath(DEPLOYMENT_SCRIPT))

\* unnamed/part_000: the same checks on DEPLOY_SCRIPT_PATH
StartupSingle ==
    /\ ~Falsy(WEBHOOK_SECRET)
    /\ ~Falsy(DEPLOY_SCRIPT_PATH)
    /\ ~(~ExistsSync(DEPLOY_SCRIPT_PATH) \/ ~isValidScriptPath(DEPLOY_SCRIPT_PATH))

\* unnamed/part_001: the secret, then every entry of DEPLOYMENT_SCRIPTS
StartupPerRepo ==
    /\ ~Falsy(WEBHOOK_SECRET)
    /\ \A repo \in DOMAIN DEPLOYMENT_SCRIPTS :
          LET scriptPath == DEPLOYMENT_SCRIPTS[repo]
          IN  ~(~ExistsSync(scriptPath) \/ ~isValidScriptPath(scriptPath))

\* unnamed/part_003: the two variables must be set, nothing else is checked
StartupLegacy ==
    /\ ~Falsy(WEBHOOK_SECRET)
    /\ ~Falsy(DEPLOY_SCRIPT_PATH)

StartupChecks ==
    IF program = "app" THEN StartupApp
    ELSE IF program = "part_000" THEN StartupSingle
    ELSE IF program = "part_001" THEN StartupPerRepo
    ELSE StartupLegacy

AllPrograms == Programs \cup {"part_003"}

\* the variable that names the script of a variant
ScriptKeyOf(p) ==
    IF p = "app" THEN K_DEPLOYMENT_SCRIPT
    ELSE IF p = "part_001" THEN K_REPO_SCRIPT_acme_site
    ELSE K_DEPLOY_SCRIPT_PATH

Without(env, k) == [n \in DOMAIN env \ {k} |-> env[n]]

BadPaths == {PathRelative, PathInjected, PathGone}

\* the environments a variant is started with: the good one, the secret unset
\* or empty, the script variable unset, the script variable naming a path that
\* is relative, holds a metacharacter or does not exist, a path that needs
\* normalizing, and for the per-repository variant a second entry that is bad
StartEnvs(p) ==
    LET base == EnvOf(p)
        k == ScriptKeyOf(p)
    IN  {base, Without(base, K_WEBHOOK_SECRET), [base EXCEPT ![K_WEBHOOK_SECRET] = <<>>],
         Without(base, k), [base EXCEPT ![k] = PathDotted]}
        \cup {[base EXCEPT ![k] = path] : path \in BadPaths}
        \cup (IF p = "part_001"
               THEN {base @@ (K_REPO_SCRIPT_zed_tool :> path) : path \in BadPaths}
               ELSE {})

\* the files on disk when the process starts: the relative path and the path
\* with a metacharacter are files that exist
DiskAtStart == {PathDeploy, PathSite, PathDotted, PathRelative, PathInjected}

\* the statements up to the last process.exit(1)
StartupValidation ==
    /\ phase = "starting"
    /\ phase' = IF StartupChecks THEN "validated" ELSE "exited"
    /\ UNCHANGED <<program, processEnv, disk, nDeliveries, req, run, children,
                   verifyIn, verifyOut, counts, edge, swallowed>>

\* app.listen(PORT, ...)
Listen ==
    /\ phase = "validated"
    /\ phase' = "listening"
    /\ UNCHANGED <<program, processEnv, disk, nDeliveries, req, run, children,
                   verifyIn, verifyOut, counts, edge, swallowed>>

\* the process without the two handlers: node ends it on an uncaught
\* exception, and on an unhandled rejection as well
OnProcessFaultDefault(kind, ph) == "exited"

\* process.on('uncaughtException', ...) and process.on('unhandledRejection',
\* ...): the handler writes a log line and returns, the process goes on
OnProcessFault(kind, ph) == ph

FaultKinds == {"uncaughtException", "unhandledRejection"}

\* an exception reaches the top of the event loop, or a promise is rejected
\* with no handler, while the server listens
ProcessFault(kind) ==
    /\ phase = "listening"
    /\ Len(swallowed) < MaxFaults
    /\ phase' = OnProcessFault(kind, phase)
    /\ swallowed' = Append(swallowed, [kind |-> kind, at |-> nDeliveries])
    /\ UNCHANGED <<program, processEnv, disk, nDeliveries, req, run, children,
                   verifyIn, verifyOut, counts, edge>>

(***************************************************************************)
(* unnamed/part_003, the first version: express.json parses the body, the  *)
(* signature is checked against the payload serialized again, and there is *)
(* no ping branch.                                                         *)
(***************************************************************************)
\* signature.split('=')[1]
SecondPiece(signature) ==
    LET pieces == Split(signature, 61)
    IN  IF Len(pieces) >= 2 THEN pieces[2] ELSE Undefined

\* Buffer.from(x): the UTF-8 bytes of a string, a TypeError for undefined
BufferFrom(x) == IF x = Undefined THEN Thrown ELSE Returned(Utf8Encode(x))

\* crypto.timingSafeEqual(Buffer.from(sig), Buffer.from(digest))
CompareStrings(sig, digest) ==
    LET a == BufferFrom(sig)
        b == BufferFrom(digest)
    IN  IF a.threw \/ b.threw THEN Thrown ELSE TimingSafeEqual(a.value, b.value)

\* function verifySignature(payload, signature, secret)
verifySignature(payload, signature, secret) ==
    IF Falsy(signature) THEN Returned(FALSE)
    ELSE LET sig == SecondPiece(signature)
             digest == HexEncode(Hmac(secret, Utf8Encode(JSON_stringify(payload))))
         IN  CatchFalse(CompareStrings(sig, digest))

\* unnamed/part_003, if (event === 'push') { ... }
PushLegacy(st, payload) ==
    LET s1 == Read(st, {"ref"})
    IN  IF payload.ref = Undefined THEN Raise(s1)
        ELSE LET branch == BranchOf(payload.ref)
             IN  IF ~Includes(ALLOWED_BRANCHES, branch) THEN OnIgnoredBranch(s1, branch)
                 ELSE LET s2 == Read(s1, {"repository.full_name"})
                      IN  IF ~payload.repository THEN Raise(s2)
                          ELSE IF ~ExistsSync(DEPLOY_SCRIPT_PATH) THEN OnScriptMissing(s2)
                          ELSE OnStarted(ExecInherit(s2, BashCmd \o DEPLOY_SCRIPT_PATH))

\* unnamed/part_003, app.post('/githubwebhook', ...): r.body is req.body
HandlerLegacy(r) ==
    LET payload == r.body
        v == verifySignature(payload, r.signature, WEBHOOK_SECRET)
    IN  IF ~v.value THEN Send(Start, 401, "Invalid signature", <<>>)
        ELSE LET st == [Start EXCEPT !.verified = TRUE]
             IN  IF r.event = EventPush THEN PushLegacy(st, payload)
                 ELSE Send(st, 200, "Received event", r.event)

(***************************************************************************)
(* The middleware in front of the handler.  A request on the wire is its   *)
(* source address, two headers, the bytes of its body and its length; of a *)
(* body longer than the limit only the length is looked at.                *)
(***************************************************************************)
\* max: 10
LimitMax == 10

\* limit: '1mb'
BodyLimit == 1048576

\* a limiter that lets max + 1 requests through
OverLimitByOne(current) == current > LimitMax + 1

\* rateLimit({ max: 10 }): the request is refused when the counter of its source,
\* this request counted, is over max
OverLimit(current) == current > LimitMax

\* a capture without a limit
RawBodyUnlimited(w) == [err |-> FALSE, status |-> 0, rawBody |-> Utf8Decode(w.bytes)]

\* the raw-body middleware: getRawBody with limit '1mb' and encoding 'utf8'
\* calls next(err) for a body over the limit, else sets req.rawBody
RawBody(w) ==
    IF w.length > BodyLimit THEN [err |-> TRUE, status |-> 413, rawBody |-> Undefined]
    ELSE [err |-> FALSE, status |-> 0, rawBody |-> Utf8Decode(w.bytes)]

\* the first character that is no white space, 0 if there is none
RECURSIVE FirstChar(_)
FirstChar(text) ==
    IF text = <<>> THEN 0
    ELSE IF Head(text) \in {32, 9, 10, 13} THEN FirstChar(Tail(text))
    ELSE Head(text)

\* express.json({ limit: '1mb' }) on a request of type application/json whose
\* body has not been read: 413 over the limit, {} for no body, 400 for a text
\* that is no JSON object or array
ExpressJson(w) ==
    IF w.length > BodyLimit THEN [err |-> TRUE, status |-> 413, body |-> EmptyObject]
    ELSE IF w.length = 0 THEN [err |-> FALSE, status |-> 0, body |-> EmptyObject]
    ELSE LET text == Utf8Decode(w.bytes)
             parsed == JSON_parse(text)
         IN  IF FirstChar(text) \notin {123, 91} \/ parsed.threw
             THEN [err |-> TRUE, status |-> 400, body |-> EmptyObject]
             ELSE [err |-> FALSE, status |-> 0, body |-> parsed.value]

\* the argument of hmac.update in verifyGitHubSignature, if the call is reached
HmacInputOf(r) ==
    IF \/ JSON_parse(r.rawBody).threw
       \/ Falsy(r.signature)
       \/ ~StartsWith(r.signature, SigPrefix)
       \/ Falsy(r.rawBody)
    THEN Undefined
    ELSE Utf8Encode(r.rawBody)

\* the argument of hmac.update in verifySignature, if the call is reached
HmacInputLegacy(r) ==
    IF Falsy(r.signature) THEN Undefined ELSE Utf8Encode(JSON_stringify(r.body))

\* what a middleware chain makes of a request: the limiter's store, the record
\* of the request, and the handler's request and run if the handler is reached
Stopped(newCounts, a, w, stages, status) ==
    [counts |-> newCounts,
     edge |-> [source |-> a, seq |-> newCounts[a], event |-> w.event,
               signature |-> w.signature, wire |-> w.bytes, length |-> w.length,
               stages |-> stages, status |-> status, hmacInput |-> Undefined],
     req |-> NoRequest, run |-> Start]

Handled3(newCounts, a, w, stages, r, h, hmacInput) ==
    [counts |-> newCounts,
     edge |-> [source |-> a, seq |-> newCounts[a], event |-> w.event,
               signature |-> w.signature, wire |-> w.bytes, length |-> w.length,
               stages |-> stages, status |-> h.sent[Len(h.sent)].status,
               hmacInput |-> hmacInput],
     req |-> r, run |-> h]

\* a chain whose limiter comes after the signature check and counts the
\* requests that passed it
ChainCountsVerified(a, w) ==
    LET current == counts[a] + 1
        newCounts == [counts EXCEPT ![a] = current]
        captured == RawBody(w)
        r == [event |-> w.event, signature |-> w.signature, rawBody |-> captured.rawBody]
    IN  IF captured.err
        THEN Stopped(counts, a, w, {"capture"}, captured.status)
        ELSE IF ~JSON_parse(r.rawBody).threw /\ ~verifyGitHubSignature(r).value
        THEN Handled3(counts, a, w, {"capture", "json", "handler"},
                      r, Handler(r), HmacInputOf(r))
        ELSE IF OverLimit(current) THEN Stopped(newCounts, a, w, {"limiter"}, 429)
        ELSE Handled3(newCounts, a, w, {"limiter", "capture", "json", "handler"},
                      r, Handler(r), HmacInputOf(r))

\* app.js lines 76-168: limiter, raw-body middleware, express.json, handler
Chain(a, w) ==
    LET current == counts[a] + 1
        newCounts == [counts EXCEPT ![a] = current]
    IN  IF OverLimit(current) THEN Stopped(newCounts, a, w, {"limiter"}, 429)
        ELSE LET captured == RawBody(w)
             IN  IF captured.err
                 THEN Stopped(newCounts, a, w, {"limiter", "capture"}, captured.status)
                 ELSE LET r == [event |-> w.event, signature |-> w.signature,
                                rawBody |-> captured.rawBody]
                      IN  Handled3(newCounts, a, w,
                                   {"limiter", "capture", "json", "handler"},
                                   r, Handler(r), HmacInputOf(r))

\* unnamed/part_003 lines 45-93: express.json, limiter, handler
ChainLegacy(a, w) ==
    LET parsed == ExpressJson(w)
        current == counts[a] + 1
        newCounts == [counts EXCEPT ![a] = current]
    IN  IF parsed.err THEN Stopped(counts, a, w, {"json"}, parsed.status)
        ELSE IF OverLimit(current)
        THEN Stopped(newCounts, a, w, {"json", "limiter"}, 429)
        ELSE LET r == [event |-> w.event, signature |-> w.signature,
                       body |-> parsed.body]
             IN  Handled3(newCounts, a, w, {"json", "limiter", "handler"},
                          [event |-> w.event, signature |-> w.signature,
                           rawBody |-> Undefined],
                          HandlerLegacy(r), HmacInputLegacy(r))

\* one request to /githubwebhook is received and answered
Receive(a, w) ==
    /\ phase = "listening"
    /\ \E out \in {IF program = "part_003" THEN ChainLegacy(a, w) ELSE Chain(a, w)} :
           /\ Len(children) + Len(out.run.execs) <= MaxTrackedChildren
           /\ counts' = out.counts
           /\ edge' = out.edge
           /\ req' = out.req
           /\ run' = out.run
           /\ children' = children \o
                   [i \in 1..Len(out.run.execs) |->
                       [delivery |-> nDeliveries + 1, cmd |-> out.run.execs[i].cmd,
                        env |-> out.run.execs[i].env, state |-> "running",
                        logged |-> <<>>, responses |-> out.run.sent]]
    /\ nDeliveries' = nDeliveries + 1
    /\ UNCHANGED <<program, processEnv, disk, verifyIn, verifyOut, phase, swallowed>>

\* windowMs: 15 * 60 * 1000: the window of some source addresses ends and
\* their counters start again
WindowReset(S) ==
    /\ phase = "listening"
    /\ \E a \in S : counts[a] > 0
    /\ counts' = [a \in Sources |-> IF a \in S THEN 0 ELSE counts[a]]
    /\ UNCHANGED <<program, processEnv, disk, nDeliveries, req, run, children,
                   verifyIn, verifyOut, phase, edge, swallowed>>

\* "{A}", the push to main
WireMain == <<123, 65, 125>>

\* "{ A}", the same with a space
WireSpaced == <<123, 32, 65, 125>>

\* a push to main whose pusher name is U+FFFD in UTF-8
WireReplaced == <<123, 239, 191, 189, 125>>

\* the same with a byte that is no UTF-8 in its place
WireFF == <<123, 255, 125>>

WireFE == <<123, 254, 125>>

\* the requests sent to the server
WireRequests ==
    LET sign(bytes) == Sign(WEBHOOK_SECRET, bytes)
        request(event, signature, bytes, length) ==
            [event |-> event, signature |-> signature, bytes |-> bytes, length |-> length]
    IN  { request(EventPush, sign(WireMain), WireMain, Len(WireMain)),
          request(EventPush, Undefined, WireMain, Len(WireMain)),
          request(EventPing, sign(<<123, 125>>), <<123, 125>>, 2),
          request(EventPush, sign(WireMain), WireSpaced, Len(WireSpaced)),
          request(EventPush, sign(WireReplaced), WireReplaced, Len(WireReplaced)),
          request(EventPush, sign(WireReplaced), WireFF, Len(WireFF)),
          request(EventPush, sign(WireReplaced), WireFE, Len(WireFE)),
          request(EventPush, Undefined, WireMain, BodyLimit + 1) }

InitServer ==
    /\ program \in AllPrograms
    /\ processEnv \in StartEnvs(program)
    /\ disk = DiskAtStart
    /\ nDeliveries = 0
    /\ req = NoRequest
    /\ run = Start
    /\ children = <<>>
    /\ verifyIn = NoRequest
    /\ verifyOut = NoOutcome
    /\ phase = "starting"
    /\ counts = NoCounts
    /\ edge = NoEdge
    /\ swallowed = <<>>

NextServer ==
    \/ StartupValidation
    \/ Listen
    \/ \E a \in Sources, w \in WireRequests :
          nDeliveries < MaxArrivals /\ Receive(a, w)
    \/ \E S \in SUBSET Sources : WindowReset(S)

SpecServer == InitServer /\ [][NextServer]_vars

(***************************************************************************)
(* The listening server under a burst of requests: long enough for the     *)
(* limiter to act, with the three kinds of request that end at different   *)
(* places of the chain.                                                    *)
(***************************************************************************)
BurstRequests ==
    { [event |-> EventPush, signature |-> Sign(WEBHOOK_SECRET, WireMain),
       bytes |-> WireMain, length |-> Len(WireMain)],
      [event |-> EventPush, signature |-> Undefined,
       bytes |-> WireMain, length |-> Len(WireMain)],
      [event |-> EventPush, signature |-> Undefined,
       bytes |-> WireMain, length |-> BodyLimit + 1] }

InitBurst ==
    /\ program \in Programs
    /\ processEnv = EnvOf(program)
    /\ disk = ConfiguredScripts
    /\ nDeliveries = 0
    /\ req = NoRequest
    /\ run = Start
    /\ children = <<>>
    /\ verifyIn = NoRequest
    /\ verifyOut = NoOutcome
    /\ phase = "listening"
    /\ counts = NoCounts
    /\ edge = NoEdge
    /\ swallowed = <<>>

NextBurst ==
    \/ \E a \in Sources, w \in BurstRequests :
          nDeliveries < MaxBurst /\ Receive(a, w)
    \/ \E S \in SUBSET Sources : WindowReset(S)

SpecBurst == InitBurst /\ [][NextBurst]_vars

(***************************************************************************)
(* Properties of process start and of the middleware, checked under        *)
(* SpecServer and SpecBurst.                                               *)
(***************************************************************************)
\* a configured script path as the startup validation is meant to leave it:
\* free of shell metacharacters, absolute, and a file on disk at process start
ScriptAcceptable(path) ==
    /\ path # Undefined
    /\ \A i \in 1..Len(path) : path[i] \notin MetaChars
    /\ path[1] = 47
    /\ path \in DiskAtStart

\* C12 as stated: the listener is bound only after the startup validation
\* succeeded: with the secret missing, or a configured script path that holds a
\* shell metacharacter, is relative or is no file on disk, the process never
\* reaches the listening state.
C12_ListenOnlyAfterValidation ==
    phase = "listening" =>
        /\ ~Falsy(WEBHOOK_SECRET)
        /\ \A path \in ConfiguredScripts : ScriptAcceptable(path)

\* the request received last is GitHub's push to main, signed
SignedPushReceived ==
    /\ edge.event = EventPush
    /\ edge.wire = WireMain
    /\ edge.length = Len(WireMain)
    /\ edge.signature = Sign(WEBHOOK_SECRET, WireMain)

\* C13: in the variants that mount the limiter first (app.js, part_000,
\* part_001) a request is counted for its source address only; when it is the
\* 11th or a later one of its source in the current window it is answered 429
\* and reaches neither the body capture nor the handler (no verification, no
\* script); when it is one of the first 10, for instance after the window of
\* its source has ended, it passes the limiter whatever the counters of the
\* other sources are.
C13_RateLimit ==
    [][(nDeliveries' # nDeliveries /\ program \in Programs) =>
          LET a == edge'.source
              n == counts[a] + 1
          IN  /\ counts' = [counts EXCEPT ![a] = n]
              /\ n > LimitMax =>
                    /\ edge'.status = 429
                    /\ edge'.stages = {"limiter"}
                    /\ run' = Start
                    /\ children' = children
              /\ n <= LimitMax =>
                    /\ edge'.status # 429
                    /\ "capture" \in edge'.stages]_vars

\* the 11th request of a source is a signed push to main and is answered 429,
\* while another source is within its limit
C13_Witness ==
    /\ program \in Programs
    /\ SignedPushReceived
    /\ edge.seq = LimitMax + 1
    /\ edge.status = 429
    /\ run.execs = <<>>
    /\ \E b \in Sources \ {edge.source} : counts[b] \in 1..LimitMax

\* C16 as stated: the signature is verified against the exact bytes received on
\* the wire, never a decoded or re-serialized form: whenever the verifier
\* computes an HMAC for a request, its input is the byte sequence of the
\* request body, so that two bodies that differ as byte sequences never get
\* the same HMAC input.
C16_HmacOverWireBytes ==
    (phase = "listening" /\ edge.hmacInput # Undefined) => edge.hmacInput = edge.wire

\* C19: a request whose body is longer than the 1 MB limit is rejected before
\* the signature is verified: the handler is not reached, so nothing is
\* verified, routed or dispatched for it.
C19_OversizeRejectedEarly ==
    (phase = "listening" /\ edge.length > BodyLimit)
    => /\ "handler" \notin edge.stages
       /\ edge.status \in {413, 429}
       /\ edge.hmacInput = Undefined
       /\ req = NoRequest
       /\ run = Start

\* app.js answered a body of one byte more than the limit with 413 from the
\* raw-body middleware
C19_Witness ==
    /\ program = "app"
    /\ edge.length = BodyLimit + 1
    /\ edge.stages = {"limiter", "capture"}
    /\ edge.status = 413
    /\ run = Start

(***************************************************************************)
(* The handler under pushes whose ref has every shape: the prefix in       *)
(* front, no prefix, the prefix inside, another prefix, the prefix twice.  *)
(***************************************************************************)
NextRefs ==
    \E body \in RefTexts \cup {JSON_stringify(PushMain), JSON_stringify(PushDev)} :
       \E signature \in {Sign(WEBHOOK_SECRET, body), Undefined} :
          Deliver([event |-> EventPush, signature |-> signature, rawBody |-> body])

SpecRefs == Init /\ [][NextRefs]_vars

\* C20 as stated: a push starts a script only if its ref is exactly
\* "refs/heads/" followed by a branch of ALLOWED_BRANCHES; a ref of any other
\* shape never starts one.
C20_OnlyPrefixedAllowedRef ==
    (/\ Handled
     /\ req.event = EventPush
     /\ ~Parsed.threw
     /\ run.execs # <<>>)
    => \E i \in DOMAIN ALLOWED_BRANCHES : Payload.ref = RefsHeads \o ALLOWED_BRANCHES[i]

(***************************************************************************)
(* Process start under every short script path: the characters are '/',    *)
(* '.', 'a' and the seven shell metacharacters, and every path is a file   *)
(* that exists, so that the outcome of the startup validation is the       *)
(* outcome of isValidScriptPath.                                           *)
(***************************************************************************)
PathAlphabet == {47, 46, 97} \cup MetaChars

PathInputs == UNION {[1..n -> PathAlphabet] : n \in 1..MaxPathLen}

\* the variables of a variant that name a script
PathKeys(p) ==
    IF p = "part_001" THEN {K_REPO_SCRIPT_acme_site, K_REPO_SCRIPT_zed_tool}
    ELSE {ScriptKeyOf(p)}

InitPaths ==
    /\ program \in Programs
    /\ \E k \in PathKeys(program), path \in PathInputs :
          /\ processEnv = (k :> path) @@ EnvOf(program)
          /\ disk = {path, PathDeploy, PathSite}
    /\ nDeliveries = 0
    /\ req = NoRequest
    /\ run = Start
    /\ children = <<>>
    /\ verifyIn = NoRequest
    /\ verifyOut = NoOutcome
    /\ phase = "starting"
    /\ counts = NoCounts
    /\ edge = NoEdge
    /\ swallowed = <<>>

NextPaths ==
    \/ StartupValidation
    \/ Listen

SpecPaths == InitPaths /\ [][NextPaths]_vars

\* the path holds none of ; & | ` $ < > and is absolute once normalized
PathSafe(path) ==
    /\ \A i \in 1..Len(path) : path[i] \notin {59, 38, 124, 96, 36, 60, 62}
    /\ PathNormalize(path)[1] = 47

\* C21: the startup validation of app.js, part_000 and part_001 passes, and
\* the listener binds, exactly when every configured script path (each a file
\* that exists) holds no shell metacharacter and is absolute after
\* normalization: isValidScriptPath is false for a path with one of the seven
\* characters or not absolute once normalized, true for every other path, and
\* it is applied to every configured script before app.listen.
C21_IsSafe ==
    phase # "starting"
    => (phase \in {"validated", "listening"}
        <=> \A path \in ConfiguredScripts : PathSafe(path))

\* the per-repository variant exited on an absolute path that holds a
\* metacharacter and exists
C21_Witness ==
    /\ program = "part_001"
    /\ phase = "exited"
    /\ \E path \in ConfiguredScripts :
          /\ path[1] = 47
          /\ path \in disk
          /\ \E i \in 1..Len(path) : path[i] \in MetaChars

(***************************************************************************)
(* The handler under pushes to an allowed and to another branch, of a      *)
(* repository with and without a configured script.                        *)
(***************************************************************************)
RouteTexts ==
    {JSON_stringify(PushMain), JSON_stringify(PushDev), JSON_stringify(PushTool)}
        \cup {d[1] : d \in RouteDocuments}

NextRoute ==
    \E body \in RouteTexts :
       \E signature \in {Sign(WEBHOOK_SECRET, body), Undefined, <<>>} :
          \E event \in {EventPush, EventPing} :
             Deliver([event |-> event, signature |-> signature, rawBody |-> body])

SpecRoute == Init /\ [][NextRoute]_vars

\* C22 as stated: in per-repository mode a validly signed push whose branch is
\* not in ALLOWED_BRANCHES is answered 200 "Ignored push to <branch> branch",
\* and one to an allowed branch for a repository without a configured script
\* is answered 200 "No deployment configured for <repository>".
C22_IgnoreReasons ==
    (/\ Handled
     /\ program = "part_001"
     /\ req.event = EventPush
     /\ GitHubSigned
     /\ ~Parsed.threw
     /\ Payload.repository
     /\ Payload.ref # Undefined)
    => LET branch == StrippedRef(Payload.ref)
           allowed == Includes(ALLOWED_BRANCHES, branch)
       IN  /\ ~allowed =>
                 run.sent = <<[status |-> 200,
                               text |-> "Ignored push to ${branch} branch",
                               arg |-> branch]>>
           /\ (allowed /\ Payload.full_name \notin DOMAIN DEPLOYMENT_SCRIPTS) =>
                 run.sent = <<[status |-> 200,
                               text |-> "No deployment configured for ${repoFullName}",
                               arg |-> Payload.full_name]>>

(***************************************************************************)
(* Deliveries that overlap: each request carries the X-GitHub-Delivery id  *)
(* GitHub gave it, a header the handler never reads, and a redelivery is   *)
(* the same request with the same id; children end at any later time.      *)
(***************************************************************************)
DeliveryIds == {"d1", "d2"}

NextOverlap ==
    \/ \E body \in {JSON_stringify(PushMain), JSON_stringify(PushTool),
                     JSON_stringify(PushDev)} :
          \E signature \in {Sign(WEBHOOK_SECRET, body), Undefined}, id \in DeliveryIds :
             Deliver([event |-> EventPush, signature |-> signature, rawBody |-> body,
                      id |-> id])
    \/ \E c \in 1..MaxDeliveries, outcome \in {"error", "stderr", "ok"} : ChildExit(c, outcome)

SpecOverlap == Init /\ [][NextOverlap]_vars

\* the request is an acceptable push whose payload has every field the
\* handler reads
CompletePush(r) ==
    LET p == JSON_parse(r.rawBody).value
    IN  /\ AcceptablePush(r)
        /\ p.after # Undefined
        /\ p.pusher
        /\ p.owner

\* C23: every accepted push starts one more child, which is running when the
\* handler returns, whatever children are still running and whether or not the
\* delivery before it had the same delivery id and the same payload; the
\* children started before are left as they are.
C23_IndependentDispatch ==
    [][(/\ nDeliveries' = nDeliveries + 1
        /\ CompletePush(req')
        /\ ScriptFor(req') \in disk)
       => /\ run'.sent = <<Started>>
          /\ Len(children') = Len(children) + 1
          /\ children'[Len(children')].state = "running"
          /\ children'[Len(children')].delivery = nDeliveries'
          /\ \A c \in 1..Len(children) : children'[c] = children[c]]_vars

\* every delivery there was started a child for the same repository with the
\* same command and environment, and all of them are running at once
C23_Witness ==
    /\ nDeliveries = MaxDeliveries
    /\ Len(children) = MaxDeliveries
    /\ Len(children) >= 2
    /\ \A c \in 1..Len(children) :
          /\ children[c].state = "running"
          /\ children[c].cmd = children[1].cmd
          /\ children[c].env = children[1].env

(***************************************************************************)
(* The per-repository variant with an entry written for a repository whose *)
(* owner has an underscore, under pushes of mapped and unmapped            *)
(* repositories.                                                           *)
(***************************************************************************)
InitKeys ==
    /\ program = "part_001"
    /\ processEnv = (K_REPO_SCRIPT_my_org_site :> PathOrg) @@ EnvOf(program)
    /\ disk = ConfiguredScripts
    /\ nDeliveries = 0
    /\ req = NoRequest
    /\ run = Start
    /\ children = <<>>
    /\ verifyIn = NoRequest
    /\ verifyOut = NoOutcome
    /\ phase = "listening"
    /\ counts = NoCounts
    /\ edge = NoEdge
    /\ swallowed = <<>>

NextKeys ==
    \/ \E body \in {d[1] : d \in KeyDocuments}
                     \cup {JSON_stringify(PushMain), JSON_stringify(PushTool),
                           JSON_stringify(PushConstructor)} :
          \E signature \in {Sign(WEBHOOK_SECRET, body), Undefined} :
             Deliver([event |-> EventPush, signature |-> signature, rawBody |-> body])
    \/ \E c \in 1..MaxDeliveries, outcome \in {"error", "stderr", "ok"} : ChildExit(c, outcome)

SpecKeys == InitKeys /\ [][NextKeys]_vars

\* the repository an entry REPO_SCRIPT_<rest> stands for: <rest> with its
\* first underscore, and no other, replaced by a slash
KeyOfEntry(name) ==
    LET rest == SubSeq(name, Len(K_REPO_SCRIPT) + 1, Len(name))
        first == CHOOSE i \in 1..Len(rest) :
                    rest[i] = 95 /\ \A j \in 1..(i - 1) : rest[j] # 95
    IN  IF \E i \in 1..Len(rest) : rest[i] = 95
        THEN [i \in 1..Len(rest) |-> IF i = first THEN 47 ELSE rest[i]]
        ELSE rest

\* the entries of the environment that configure a script
ScriptEntries == {k \in DOMAIN processEnv : StartsWith(k, K_REPO_SCRIPT)}

\* C24: in per-repository mode a validly signed, complete push to an allowed
\* branch starts a script exactly when repository.full_name is the key of an
\* entry REPO_SCRIPT_<rest>, the key being <rest> with only its first
\* underscore replaced by a slash, and the script started is that entry's; so
\* the entry REPO_SCRIPT_my_org_site serves my/org_site and never my_org/site.
C24_FirstUnderscoreKey ==
    (/\ Handled
     /\ program = "part_001"
     /\ req.event = EventPush
     /\ GitHubSigned
     /\ ~Parsed.threw
     /\ Payload.repository /\ Payload.pusher /\ Payload.owner
     /\ Payload.ref # Undefined /\ Payload.after # Undefined
     /\ Includes(ALLOWED_BRANCHES, BranchOf(Payload.ref)))
    => /\ run.execs # <<>> <=> \E k \in ScriptEntries : KeyOfEntry(k) = Payload.full_name
       /\ \A i \in 1..Len(run.execs) :
             \E k \in ScriptEntries :
                /\ KeyOfEntry(k) = Payload.full_name
                /\ run.execs[i].cmd = BashCmd \o processEnv[k]
       /\ Payload.full_name = RepoOrg => run.sent = <<[status |-> 200,
                text |-> "No deployment configured for ${repoFullName}",
                arg |-> RepoOrg]>>

\* the push of my_org/site was answered 'No deployment configured' although
\* REPO_SCRIPT_my_org_site is set
C24_Witness ==
    /\ Handled
    /\ program = "part_001"
    /\ K_REPO_SCRIPT_my_org_site \in DOMAIN processEnv
    /\ GitHubSigned
    /\ req.event = EventPush
    /\ Payload = PushOrg
    /\ Answered(200)
    /\ run.execs = <<>>

(***************************************************************************)
(* The process from its start, with a good configuration, under requests   *)
(* that are deployed, rejected or make the handler throw, children that    *)
(* end in any way, and process-level faults.                               *)
(***************************************************************************)
\* GitHub's push to main, a signed push with the body "{}" on which the
\* handler throws a TypeError, and an unsigned push
AliveRequests ==
    { [event |-> EventPush, signature |-> Sign(WEBHOOK_SECRET, WireMain),
       bytes |-> WireMain, length |-> Len(WireMain)],
      [event |-> EventPush, signature |-> Sign(WEBHOOK_SECRET, <<123, 125>>),
       bytes |-> <<123, 125>>, length |-> 2],
      [event |-> EventPush, signature |-> Undefined,
       bytes |-> WireMain, length |-> Len(WireMain)] }

InitAlive ==
    /\ program \in AllPrograms
    /\ processEnv = EnvOf(program)
    /\ disk = ConfiguredScripts
    /\ nDeliveries = 0
    /\ req = NoRequest
    /\ run = Start
    /\ children = <<>>
    /\ verifyIn = NoRequest
    /\ verifyOut = NoOutcome
    /\ phase = "starting"
    /\ counts = NoCounts
    /\ edge = NoEdge
    /\ swallowed = <<>>

ReceiveAlive == \E w \in AliveRequests : Receive("10.0.0.1", w)

NextAlive ==
    \/ StartupValidation
    \/ Listen
    \/ nDeliveries < MaxArrivals /\ ReceiveAlive
    \/ \E c \in 1..MaxTrackedChildren, outcome \in {"error", "stderr", "ok"} :
          ChildExit(c, outcome)
    \/ \E kind \in FaultKinds : ProcessFault(kind)

SpecAlive == InitAlive /\ [][NextAlive]_vars

\* C25: once the server listens, no step ends that: neither a request on
\* which the handler throws, nor an uncaught exception or an unhandled
\* rejection at process level, nor a child that fails; and a request received
\* after any of these is answered by the middleware chain or the handler.
C25_ListenerStaysAlive ==
    [][/\ phase = "listening" => phase' = "listening"
       /\ nDeliveries' = nDeliveries + 1
            => /\ phase = "listening"
               /\ edge'.status \in {200, 401, 429, 500}
               /\ edge'.status # 429 => Len(run'.sent) = 1]_vars

\* a push was deployed after a process-level fault had been logged, after the
\* handler had thrown on an earlier request or not
C25_Witness ==
    /\ phase = "listening"
    /\ swallowed # <<>>
    /\ swallowed[1].at < nDeliveries
    /\ edge.status = 200
    /\ "handler" \in edge.stages
    /\ run.execs # <<>>

(***************************************************************************)
(* The listening server of every variant under one request for each path   *)
(* through the handler, with the script removed at any time and children   *)
(* that end in any way.                                                    *)
(***************************************************************************)
\* "{C}", the push to dev
WireDev == <<123, 67, 125>>

HandlerRequests ==
    LET sign(bytes) == Sign(WEBHOOK_SECRET, bytes)
        request(event, signature, bytes) ==
            [event |-> event, signature |-> signature, bytes |-> bytes,
             length |-> Len(bytes)]
    IN  { request(EventPush, sign(WireMain), WireMain),
          request(EventPush, Undefined, WireMain),
          request(EventPush, sign(WireDev), WireDev),
          request(EventPush, sign(FormBody), FormBody),
          request(EventPush, sign(<<123, 125>>), <<123, 125>>),
          request(EventPing, sign(<<123, 125>>), <<123, 125>>),
          request(EventIssues, sign(<<123, 125>>), <<123, 125>>) }

InitHandlers ==
    /\ program \in AllPrograms
    /\ processEnv = EnvOf(program)
    /\ disk = ConfiguredScripts
    /\ nDeliveries = 0
    /\ req = NoRequest
    /\ run = Start
    /\ children = <<>>
    /\ verifyIn = NoRequest
    /\ verifyOut = NoOutcome
    /\ phase = "listening"
    /\ counts = NoCounts
    /\ edge = NoEdge
    /\ swallowed = <<>>

NextHandlers ==
    \/ \E w \in HandlerRequests :
          nDeliveries < MaxArrivals /\ Receive("10.0.0.1", w)
    \/ \E c \in 1..MaxTrackedChildren, outcome \in {"error", "stderr", "ok"} :
          ChildExit(c, outcome)
    \/ \E p \in ConfiguredScripts : RemoveScript(p)

SpecHandlers == InitHandlers /\ [][NextHandlers]_vars

\* C26: a request that reached the handler of app.js, part_000, part_001 or
\* part_003 has exactly one response, whichever path the handler took (an
\* exception that leaves the handler is answered once, by Express), and a
\* delivery that started a child still has exactly one response when the
\* child has ended.
C26_ExactlyOneResponse ==
    /\ "handler" \in edge.stages => Len(run.sent) = 1
    /\ \A c \in 1..Len(children) : Len(children[c].responses) = 1

\* the first version answered a push 'Deployment started', the child failed,
\* and a later request reached the handler
C26_Witness ==
    /\ program = "part_003"
    /\ "handler" \in edge.stages
    /\ nDeliveries >= 2
    /\ \E c \in 1..Len(children) :
          /\ children[c].state = "exited"
          /\ children[c].logged = <<"Deployment error">>
          /\ children[c].responses = <<Started>>

(***************************************************************************)
(* One source address that sends unsigned pushes and GitHub's signed push  *)
(* in any order, longer than the limiter's maximum.                        *)
(***************************************************************************)
FloodRequests ==
    { [event |-> EventPush, signature |-> Sign(WEBHOOK_SECRET, WireMain),
       bytes |-> WireMain, length |-> Len(WireMain)],
      [event |-> EventPush, signature |-> Undefined,
       bytes |-> WireMain, length |-> Len(WireMain)] }

NextFlood ==
    \/ \E w \in FloodRequests :
          nDeliveries < MaxBurst /\ Receive("10.0.0.1", w)
    \/ WindowReset({"10.0.0.1"})

SpecFlood == InitBurst /\ [][NextFlood]_vars

\* C27: in the variants that mount the limiter first, a request answered 401
\* for its signature is counted for its source like any other, and GitHub's
\* signed push to main from a source that already has 10 requests in the
\* current window, all of them rejected ones or not, is answered 429 and
\* starts no script.
C27_LimiterBeforeAuthentication ==
    [][(nDeliveries' # nDeliveries /\ program \in Programs) =>
          LET a == edge'.source
          IN  /\ edge'.status = 401 => counts'[a] = counts[a] + 1
              /\ (counts[a] >= LimitMax /\ SignedPushReceived') =>
                    /\ edge'.status = 429
                    /\ "handler" \notin edge'.stages
                    /\ run'.execs = <<>>
                    /\ children' = children]_vars

\* the first ten requests of the run came from one source and none was
\* deployed; the eleventh, from the same source, is GitHub's signed push and
\* is answered 429
C27_Witness ==
    /\ program = "app"
    /\ nDeliveries = LimitMax + 1
    /\ counts[edge.source] = LimitMax + 1
    /\ children = <<>>
    /\ SignedPushReceived
    /\ edge.status = 429

(***************************************************************************)
(* The per-repository variant started with the secret and no               *)
(* REPO_SCRIPT_ entry, under signed and unsigned pushes of several         *)
(* repositories.                                                           *)
(***************************************************************************)
\* "{D}", "{H}": the pushes to main of zed/tool and of "constructor"
WireTool == <<123, 68, 125>>
WireConstructor == <<123, 72, 125>>

EmptyRequests ==
    LET sign(bytes) == Sign(WEBHOOK_SECRET, bytes)
        request(event, signature, bytes) ==
            [event |-> event, signature |-> signature, bytes |-> bytes,
             length |-> Len(bytes)]
    IN  { request(EventPush, sign(WireMain), WireMain),
          request(EventPush, sign(WireDev), WireDev),
          request(EventPush, sign(WireTool), WireTool),
          request(EventPush, sign(WireConstructor), WireConstructor),
          request(EventPush, Undefined, WireMain),
          request(EventPing, sign(<<123, 125>>), <<123, 125>>) }

InitEmpty ==
    /\ program = "part_001"
    /\ processEnv = (K_WEBHOOK_SECRET :> SecretA)
    /\ disk = DiskAtStart
    /\ nDeliveries = 0
    /\ req = NoRequest
    /\ run = Start
    /\ children = <<>>
    /\ verifyIn = NoRequest
    /\ verifyOut = NoOutcome
    /\ phase = "starting"
    /\ counts = NoCounts
    /\ edge = NoEdge
    /\ swallowed = <<>>

NextEmpty ==
    \/ StartupValidation
    \/ Listen
    \/ \E a \in Sources, w \in EmptyRequests :
          nDeliveries < MaxArrivals /\ Receive(a, w)
    \/ \E S \in SUBSET Sources : WindowReset(S)

SpecEmpty == InitEmpty /\ [][NextEmpty]_vars

\* C28 as stated: the per-repository variant started without any
\* REPO_SCRIPT_ entry does not exit; every validly signed push it handles is
\* answered 200 'No deployment configured for <repository>', and no script is
\* started.
C28_EmptyMapping ==
    (program = "part_001" /\ DOMAIN DEPLOYMENT_SCRIPTS = {})
    => /\ phase # "exited"
       /\ children = <<>>
       /\ run.execs = <<>>
       /\ (/\ "handler" \in edge.stages
           /\ req.event = EventPush
           /\ GitHubSigned)
          => run.sent = <<[status |-> 200,
                           text |-> "No deployment configured for ${repoFullName}",
                           arg |-> Payload.full_name]>>

(***************************************************************************)
(* Routing of push events.                                                 *)
(***************************************************************************)
\* C11 as stated: in per-repository mode a validly signed push for a repository
\* whose full name is not a key of the configured mapping is answered 200 and
\* starts no script, whatever the full name is.
C11_UnmappedRepositoryIgnored ==
    (/\ Handled
     /\ program = "part_001"
     /\ req.event = EventPush
     /\ GitHubSigned
     /\ ~Parsed.threw
     /\ Payload.repository
     /\ Payload.ref # Undefined
     /\ Payload.full_name \notin DOMAIN DEPLOYMENT_SCRIPTS)
    => (Answered(200) /\ run.execs = <<>>)

\* C14: when a validly signed push to an allowed branch, for a repository with a
\* configured script, is handled while that script is no longer on disk, the
\* request is answered 500 and no script is started.
C14_MissingScriptIs500 ==
    [][(/\ nDeliveries' = nDeliveries + 1
        /\ AcceptablePush(req')
        /\ ScriptFor(req') \notin disk)
       => (Len(run'.sent) = 1 /\ run'.sent[1].status = 500 /\ run'.execs = <<>>)]_vars

\* a complete push to main was answered 'Script not found' after the script had
\* been removed
C14_Witness ==
    /\ Handled
    /\ AcceptablePush(req)
    /\ Payload \in {PushMain, PushMainLogin}
    /\ ScriptFor(req) \notin disk
    /\ run.sent = <<[status |-> 500, text |-> "Deployment error: Script not found",
                     arg |-> <<>>]>>
    /\ run.execs = <<>>

\* a configured script is not on disk
ScriptMissing == \E path \in ConfiguredScripts : path \notin disk

\* C15 as stated: the status of every response is one of 200, 400, 401, 429 and
\* 500; 500 is sent only when the configured script is missing when the request
\* is dispatched; a validly signed request with a well-formed JSON body, of any
\* event type and any payload shape, is answered 200 unless the script is
\* missing.
C15_StatusCodes ==
    [][nDeliveries' = nDeliveries + 1 =>
          LET status == run'.sent[Len(run'.sent)].status
              parsed == JSON_parse(req'.rawBody)
              signed == req'.signature = Sign(WEBHOOK_SECRET, req'.rawBody)
          IN  /\ Len(run'.sent) = 1
              /\ status \in {200, 400, 401, 429, 500}
              /\ status = 500 => ScriptMissing
              /\ (signed /\ ~parsed.threw /\ ~ScriptMissing) => status = 200]_vars

\* C18: a validly signed request with a JSON body whose event type is neither
\* ping nor push, or that has no event header, is answered 200 with the
\* no-action message; no payload property is read and no script is started.
C18_OtherEventAcknowledged ==
    (Handled /\ GitHubSigned /\ ~Parsed.threw /\ req.event \notin {EventPing, EventPush})
    => /\ run.sent = <<[status |-> 200,
                        text |-> "Received ${event} event, but no action taken",
                        arg |-> req.event]>>
       /\ run.reads = {}
       /\ run.execs = <<>>

\* a signed request without an event header, whose body is a push to main, was
\* acknowledged
C18_Witness ==
    /\ Handled
    /\ GitHubSigned
    /\ req.event = Undefined
    /\ Payload = PushMain
    /\ Answered(200)
    /\ run.execs = <<>>

====
